---------------------------- MODULE Spec2Model ----------------------------
(***************************************************************************)
(* Model of the step-dependency and streaming-orchestration engine of the  *)
(* long-form AI generator: the zustand store (useAppStore), the pure       *)
(* helpers of App.tsx, and the handlers of App that bind user actions to   *)
(* the generation API.                                                     *)
(*                                                                         *)
(* Strings are sequences of one-character strings, so that trim(),         *)
(* replace(/\s/g,'') and concatenation are computed character by character.*)
(***************************************************************************)
EXTENDS Integers, Sequences, FiniteSets, TLC

VARIABLES
    store,          \* the zustand state of useAppStore (all data fields)
    confirmation,   \* App's useState: the pending confirmation, or NoConfirmation
    isModalOpen,    \* App's useState: the AddCharacterModal is open
    calls,          \* the generation calls in flight (suspended async handlers)
    dispatched,     \* history: the number of generation calls dispatched so far
    events,         \* history: the number of handlers and API events run so far
    lastOp          \* history: the handler or event that produced this state

vars == <<store, confirmation, isModalOpen, calls, dispatched, events, lastOp>>

-----------------------------------------------------------------------------
(* Bounds of the model *)

\* largest number of non-whitespace characters of a researchData input
MaxNonWs == 52
\* longest citation sequence fed to a merge
MaxCitations == 2
\* generation calls dispatched in one behaviour of the application
MaxDispatches == 2
\* handler invocations and API events in one behaviour of the application
MaxEvents == 7
\* chunks one streaming response delivers
MaxChunks == 3
\* characters of a panel that a manual addition can still extend
MaxCharacters == 2

-----------------------------------------------------------------------------
(* Strings *)

\* the characters matched by \s and removed by trim()
Whitespace == {" ", "\n", "\t"}

\* n copies of the character c
Rep(c, n) == [i \in 1..n |-> c]

\* String.prototype.replace(/\s/g, '')
StripWhitespace(s) == SelectSeq(s, LAMBDA c : c \notin Whitespace)

RECURSIVE TrimStart(_)
TrimStart(s) ==
    IF s # <<>> /\ Head(s) \in Whitespace THEN TrimStart(Tail(s)) ELSE s

RECURSIVE TrimEnd(_)
TrimEnd(s) ==
    IF s # <<>> /\ s[Len(s)] \in Whitespace
    THEN TrimEnd(SubSeq(s, 1, Len(s) - 1))
    ELSE s

\* String.prototype.trim()
Trim(s) == TrimEnd(TrimStart(s))

\* the truthiness of a string: !!s
Truthy(s) == s # <<>>

-----------------------------------------------------------------------------
(* The store: src/unnamed/part_000, useAppStore *)

Steps == 1..5

\* preparingStep: null
NoStep == 0

\* error: null
NoError == [kind |-> "null"]

PromptSlots ==
    {"step1", "step2", "step2Add", "step3", "step4", "step4Extend", "step5",
     "step4System", "step5System"}

\* the default templates, a template being its fixed text (one element) and
\* its placeholders in the order of the source
DEFAULT_PROMPTS ==
    [ step1       |-> <<"topic-gen">>,
      step2       |-> <<"research", "{{topic}}">>,
      step2Add    |-> <<"research-supplement", "{{researchData}}", "{{topic}}",
                        "{{supplementalQuery}}">>,
      step3       |-> <<"panel-gen", "{{topic}}", "{{researchData}}">>,
      step4       |-> <<"discussion-start", "{{topic}}", "{{researchData}}",
                        "{{characterProfiles}}">>,
      step4Extend |-> <<"discussion-extend", "{{existingTranscript}}",
                        "{{topic}}", "{{researchData}}", "{{characterProfiles}}">>,
      step5       |-> <<"article-gen", "{{topic}}", "{{researchData}}",
                        "{{transcript}}">>,
      step4System |-> <<"discussion-system-instruction">>,
      step5System |-> <<"article-system-instruction">> ]

\* Record<number, boolean> without keys
EmptyLoading == [k \in {} |-> FALSE]

\* the initial state of the store
InitialStore ==
    [ step                      |-> 1,
      loading                   |-> EmptyLoading,
      preparingStep             |-> NoStep,
      error                     |-> NoError,
      topic                     |-> <<>>,
      isTopicConfirmed          |-> FALSE,
      researchData              |-> <<>>,
      supplementalResearchQuery |-> <<>>,
      citations                 |-> <<>>,
      characters                |-> <<>>,
      meetingTranscript         |-> <<>>,
      finalArticle              |-> <<>>,
      prompts                   |-> DEFAULT_PROMPTS ]

\* loading[n] read as a condition (a missing key is undefined, hence falsy)
IsLoading(st, n) == n \in DOMAIN st.loading /\ st.loading[n]

\* setLoading(prev => ({ ...prev, [n]: b }))
SetLoadingKey(st, n, b) ==
    [st EXCEPT !.loading =
        [k \in (DOMAIN st.loading) \cup {n} |-> IF k = n THEN b ELSE st.loading[k]]]

\* resetStepsFrom with the loop bounds of a plausible slip: i > fromStep
resetStepsFrom_KeepsOwnLoading(st, fromStep) ==
    LET s1 == IF fromStep <= 1
              THEN [st EXCEPT !.topic = <<>>, !.isTopicConfirmed = FALSE]
              ELSE st
        s2 == IF fromStep <= 2
              THEN [s1 EXCEPT !.researchData = <<>>,
                              !.supplementalResearchQuery = <<>>,
                              !.citations = <<>>]
              ELSE s1
        s3 == IF fromStep <= 3 THEN [s2 EXCEPT !.characters = <<>>] ELSE s2
        s4 == IF fromStep <= 4 THEN [s3 EXCEPT !.meetingTranscript = <<>>] ELSE s3
        s5 == IF fromStep <= 5 THEN [s4 EXCEPT !.finalArticle = <<>>] ELSE s4
        keep == {k \in DOMAIN st.loading : k <= fromStep \/ k > 5}
    IN  [s5 EXCEPT !.loading = [k \in keep |-> st.loading[k]],
                   !.error = NoError]

\* resetStepsFrom clearing every step instead of the steps >= fromStep
resetStepsFrom_ClearsAll(st, fromStep) ==
    [st EXCEPT !.topic = <<>>, !.isTopicConfirmed = FALSE,
               !.researchData = <<>>, !.supplementalResearchQuery = <<>>,
               !.citations = <<>>, !.characters = <<>>,
               !.meetingTranscript = <<>>, !.finalArticle = <<>>,
               !.loading = EmptyLoading, !.error = NoError]

\* resetStepsFrom(fromStep)
resetStepsFrom(st, fromStep) ==
    LET s1 == IF fromStep <= 1
              THEN [st EXCEPT !.topic = <<>>, !.isTopicConfirmed = FALSE]
              ELSE st
        s2 == IF fromStep <= 2
              THEN [s1 EXCEPT !.researchData = <<>>,
                              !.supplementalResearchQuery = <<>>,
                              !.citations = <<>>]
              ELSE s1
        s3 == IF fromStep <= 3 THEN [s2 EXCEPT !.characters = <<>>] ELSE s2
        s4 == IF fromStep <= 4 THEN [s3 EXCEPT !.meetingTranscript = <<>>] ELSE s3
        s5 == IF fromStep <= 5 THEN [s4 EXCEPT !.finalArticle = <<>>] ELSE s4
        \* for (let i = fromStep; i <= 5; i++) delete newLoading[i]
        keep == {k \in DOMAIN st.loading : k < fromStep \/ k > 5}
    IN  [s5 EXCEPT !.loading = [k \in keep |-> st.loading[k]],
                   !.error = NoError]

\* resetAll() with the `prompts` entry missing from the object it sets
resetAll_KeepsPrompts(st) == [InitialStore EXCEPT !.prompts = st.prompts]

\* resetAll()
resetAll(st) == InitialStore

\* the merge with the `some` test dropped: every incoming citation is pushed
MergeCitations_NoDedup(existing, incoming) == existing \o incoming

\* the dedup loop of appendToResearch and of the supplemental onComplete:
\* push each incoming citation unless an entry with its uri is already there
RECURSIVE MergeCitations(_, _)
MergeCitations(existing, incoming) ==
    IF incoming = <<>> THEN existing
    ELSE LET c == Head(incoming)
             present == \E i \in DOMAIN existing : existing[i].uri = c.uri
         IN  MergeCitations(IF present THEN existing ELSE Append(existing, c),
                            Tail(incoming))

\* appendToResearch(newResearch, newCitations)
appendToResearch(st, newResearch, newCitations) ==
    [st EXCEPT !.researchData = st.researchData \o newResearch,
               !.citations = MergeCitations(st.citations, newCitations)]

-----------------------------------------------------------------------------
(* The logical-completion predicate: src/App.tsx *)

\* researchData.replace(/\s/g, '').length > 50 with the comparison off by one
ResearchLongEnough_AtLeast(researchData) ==
    Len(StripWhitespace(researchData)) >= 50

\* researchData.replace(/\s/g, '').length > 50
ResearchLongEnough(researchData) ==
    Len(StripWhitespace(researchData)) > 50

\* the predicate with trim() forgotten in the transcript case
isStepLogicallyCompleted_NoTrim(st, stepNumber) ==
    CASE stepNumber = 1 -> st.isTopicConfirmed
      [] stepNumber = 2 -> Len(StripWhitespace(st.researchData)) > 50
                           \/ Len(st.citations) > 0
      [] stepNumber = 3 -> Len(st.characters) > 0
      [] stepNumber = 4 -> Truthy(st.meetingTranscript)
      [] stepNumber = 5 -> Truthy(Trim(st.finalArticle))
      [] OTHER -> FALSE

\* isStepLogicallyCompleted(stepNumber), of App
isStepLogicallyCompleted(st, stepNumber) ==
    CASE stepNumber = 1 -> st.isTopicConfirmed
      [] stepNumber = 2 -> ResearchLongEnough(st.researchData)
                           \/ Len(st.citations) > 0
      [] stepNumber = 3 -> Len(st.characters) > 0
      [] stepNumber = 4 -> Truthy(Trim(st.meetingTranscript))
      [] stepNumber = 5 -> Truthy(Trim(st.finalArticle))
      [] OTHER -> FALSE

\* isStepLogicallyCompletedForSidebar(stepNumber), of Sidebar
isStepLogicallyCompletedForSidebar(st, stepNumber) ==
    CASE stepNumber = 1 -> st.isTopicConfirmed
      [] stepNumber = 2 -> ResearchLongEnough(st.researchData)
                           \/ Len(st.citations) > 0
      [] stepNumber = 3 -> Len(st.characters) > 0
      [] stepNumber = 4 -> Truthy(Trim(st.meetingTranscript))
      [] stepNumber = 5 -> Truthy(Trim(st.finalArticle))
      [] OTHER -> FALSE

\* getStepStatus(n) of App, getStatus(n) of Sidebar
getStepStatus(st, n) ==
    IF st.step > n THEN "completed"
    ELSE IF st.step = n THEN "active"
    ELSE "locked"

-----------------------------------------------------------------------------
(* Sample values of the entities *)

\* the citations a grounding chunk can carry: two uris, two titles each
CitationPool == [title : {"a", "b"}, uri : {"u1", "u2"}]

Character1 == [name |-> "n1", profession |-> "p1", background |-> "b1"]
Character2 == [name |-> "n2", profession |-> "p2", background |-> "b2"]
Character3 == [name |-> "n3", profession |-> "p3", background |-> "b3"]

\* all sequences over S of length at most n
SeqsUpTo(S, n) == UNION {[1..k -> S] : k \in 0..n}

\* App's useState(null): no confirmation is pending
NoConfirmation == [kind |-> "none"]

\* an error message from the quota branch of the catch blocks
QuotaError == [kind |-> "quota"]

-----------------------------------------------------------------------------
(* geminiService: src/unnamed/part_000 *)

Min(S) == CHOOSE x \in S : \A y \in S : x <= y

\* String.prototype.replace(token, value) with a string pattern: the first
\* occurrence only
Replace(s, token, value) ==
    LET at == {i \in DOMAIN s : s[i] = token}
    IN  IF at = {} THEN s
        ELSE SubSeq(s, 1, Min(at) - 1) \o value \o SubSeq(s, Min(at) + 1, Len(s))

\* String.prototype.substring(0, n)
Substring(s, n) == SubSeq(s, 1, IF Len(s) < n THEN Len(s) ELSE n)

\* researchData.substring(0, 20000) of generateMeetingGroup
GroupResearchLimit == 20000

\* generateTopic returns the prompt it was given
TopicPrompt(customPrompt) == customPrompt

\* the prompt generateMeetingGroup resolves and returns
GroupPrompt(topic, researchData, customPrompt) ==
    Replace(Replace(customPrompt, "{{topic}}", topic),
            "{{researchData}}", Substring(researchData, GroupResearchLimit))

\* the loop of the streamGenerators with the `some` test dropped
CollectCitations_NoDedup(collectedCitations, newCitations) ==
    collectedCitations \o newCitations

\* the dedup loop of the two streamGenerators: push a chunk's citations onto
\* collectedCitations unless the uri is already collected
RECURSIVE CollectCitations(_, _)
CollectCitations(collectedCitations, newCitations) ==
    IF newCitations = <<>> THEN collectedCitations
    ELSE LET c == Head(newCitations)
             present == \E i \in DOMAIN collectedCitations :
                            collectedCitations[i].uri = c.uri
         IN  CollectCitations(IF present THEN collectedCitations
                                         ELSE Append(collectedCitations, c),
                              Tail(newCitations))

\* conductResearchStream starts two generators over the one response: the
\* one consumed in the background asks first, the one handed to the UI
\* second, and each asks again after its chunk, so the chunks alternate
ResearchConsumer(responses) == IF responses % 2 = 0 THEN "background" ELSE "ui"

-----------------------------------------------------------------------------
(* Values thrown by the API, and their classification: src/App.tsx *)

RateLimited == [isError |-> TRUE, message |-> <<"got", "429">>]
Boom        == [isError |-> TRUE, message |-> <<"boom">>]
\* JSON.parse failed in generateMeetingGroup
InvalidFormat == [isError |-> TRUE, message |-> <<"invalid", "format">>]

\* isRateLimitError testing for '429' only
isRateLimitError_Only429(e) ==
    e.isError /\ \E i \in DOMAIN e.message : e.message[i] = "429"

\* isRateLimitError(error)
isRateLimitError(e) ==
    e.isError /\ \E i \in DOMAIN e.message :
                    e.message[i] \in {"429", "RESOURCE_EXHAUSTED"}

\* the argument of setError in the catch blocks
ErrorMessage(stepNumber, e) ==
    IF isRateLimitError(e) THEN QuotaError
    ELSE IF e.isError
         THEN [kind |-> "stepFailed", step |-> stepNumber, message |-> e.message]
         ELSE [kind |-> "unknown"]

\* setError('請先輸入一個議題。')
TopicRequiredError == [kind |-> "topicRequired"]

-----------------------------------------------------------------------------
(* The two call shapes: handleApiCall and handleStreamApiCall *)

StreamKinds == {"research", "supplemental", "start", "extend", "article"}

StepOf(kind) ==
    CASE kind = "topic" -> 1
      [] kind \in {"research", "supplemental"} -> 2
      [] kind = "group" -> 3
      [] kind \in {"start", "extend"} -> 4
      [] kind = "article" -> 5

\* the action each rerun handler wraps
RerunKind(stepToRerun) ==
    CASE stepToRerun = 1 -> "topic"
      [] stepToRerun = 2 -> "research"
      [] stepToRerun = 3 -> "group"
      [] stepToRerun = 4 -> "start"
      [] stepToRerun = 5 -> "article"

\* the workflow entities of a store: what a call finds when it is made
Entities(st) ==
    [ topic             |-> st.topic,
      isTopicConfirmed  |-> st.isTopicConfirmed,
      researchData      |-> st.researchData,
      citations         |-> st.citations,
      characters        |-> st.characters,
      meetingTranscript |-> st.meetingTranscript,
      finalArticle      |-> st.finalArticle,
      prompts           |-> st.prompts,
      step              |-> st.step ]

\* a suspended invocation: its position, its locals, and the values its
\* closures captured when the handler was created
NewCall(kind, query, prompt, before) ==
    [ kind       |-> kind,
      step       |-> StepOf(kind),
      pc         |-> "request",     \* awaiting apiFn() / streamApiFn()
      firstChunk |-> TRUE,
      collected  |-> <<>>,          \* collectedCitations of the generator
      responses  |-> 0,             \* chunks of the response consumed so far
      query      |-> query,
      prompt     |-> prompt,
      fragments  |-> <<>>,          \* history: the chunks the for-await saw
      before     |-> Entities(before) ] \* history: the entities at the call

\* setLoading(true); setPreparingStep(stepNumber); setError(null)
BeginCall(st, stepNumber) ==
    [SetLoadingKey(st, stepNumber, TRUE) EXCEPT !.preparingStep = stepNumber,
                                                !.error = NoError]

\* the heading "\n\n---\n\n## <4 characters>：${query}\n\n"; the four CJK
\* characters and the full-width colon are written H, E, A, D, :
Heading(query) ==
    <<"\n", "\n", "-", "-", "-", "\n", "\n", "#", "#", " ",
      "H", "E", "A", "D", ":">> \o query \o <<"\n", "\n">>

\* the banner "\n\n---\n\n### <4 characters>\n\n", the CJK characters
\* written M, O, R, E
ExtensionSeparator ==
    <<"\n", "\n", "-", "-", "-", "\n", "\n", "#", "#", "#", " ",
      "M", "O", "R", "E", "\n", "\n">>

\* the onStart callback of each streaming handler
onStart(st, kind, query) ==
    CASE kind = "research" ->
            [st EXCEPT !.researchData = <<>>, !.citations = <<>>]
      [] kind = "supplemental" ->
            [st EXCEPT !.researchData = st.researchData \o Heading(query)]
      [] kind = "start" -> [st EXCEPT !.meetingTranscript = <<>>]
      [] kind = "extend" ->
            [st EXCEPT !.meetingTranscript =
                            st.meetingTranscript \o ExtensionSeparator]
      [] kind = "article" -> [st EXCEPT !.finalArticle = <<>>]
      [] OTHER -> st

\* the onChunk callback of each streaming handler: setX(prev => prev + chunk)
onChunk(st, kind, chunk) ==
    CASE kind \in {"research", "supplemental"} ->
            [st EXCEPT !.researchData = st.researchData \o chunk]
      [] kind \in {"start", "extend"} ->
            [st EXCEPT !.meetingTranscript = st.meetingTranscript \o chunk]
      [] kind = "article" ->
            [st EXCEPT !.finalArticle = st.finalArticle \o chunk]

\* the onComplete callback of each streaming handler
onComplete(st, kind, collectedCitations) ==
    CASE kind = "research" -> [st EXCEPT !.citations = collectedCitations]
      [] kind = "supplemental" ->
            [st EXCEPT !.citations =
                            MergeCitations(st.citations, collectedCitations)]
      [] OTHER -> st

\* the synchronous prefix of a call, up to its first await
Dispatch(st, kind, query) == onStart(BeginCall(st, StepOf(kind)), kind, query)

\* the body of the for-await loop with onChunk skipped on the first chunk
ConsumeChunk_DropsFirst(st, c, chunk) ==
    IF c.firstChunk THEN [st EXCEPT !.preparingStep = NoStep]
    ELSE onChunk(st, c.kind, chunk)

\* the body of the for-await loop without setPreparingStep(null)
ConsumeChunk_KeepsPreparing(st, c, chunk) == onChunk(st, c.kind, chunk)

\* the body of the for-await loop with onChunk written as setX(x + chunk)
\* over the values the handler's closure captured
ConsumeChunk_StaleSnapshot(st, c, chunk) ==
    onChunk([st EXCEPT !.preparingStep = NoStep,
                       !.researchData = c.before.researchData,
                       !.meetingTranscript = c.before.meetingTranscript,
                       !.finalArticle = c.before.finalArticle],
            c.kind, chunk)

\* the body of the for-await loop of handleStreamApiCall
ConsumeChunk(st, c, chunk) ==
    onChunk(IF c.firstChunk THEN [st EXCEPT !.preparingStep = NoStep] ELSE st,
            c.kind, chunk)

\* the finally block without setLoading(false)
EndCall_KeepsLoading(st, stepNumber) == [st EXCEPT !.preparingStep = NoStep]

\* finally: setLoading(false); setPreparingStep(null)
EndCall(st, stepNumber) ==
    [SetLoadingKey(st, stepNumber, FALSE) EXCEPT !.preparingStep = NoStep]

\* catch, then finally
FailCall(st, stepNumber, e) ==
    EndCall([st EXCEPT !.error = ErrorMessage(stepNumber, e)], stepNumber)

\* the query field emptied whatever handleStreamApiCall returned
AfterCall_ClearsAlways(st, c, success) ==
    IF c.kind = "supplemental"
    THEN [st EXCEPT !.supplementalResearchQuery = <<>>]
    ELSE st

\* what the awaiting handler does once handleStreamApiCall has returned
AfterCall(st, c, success) ==
    IF c.kind = "supplemental" /\ success
    THEN [st EXCEPT !.supplementalResearchQuery = <<>>]
    ELSE st

RemoveAt(s, i) == SubSeq(s, 1, i - 1) \o SubSeq(s, i + 1, Len(s))

-----------------------------------------------------------------------------
(* What the page lets the user do: the JSX of App and Sidebar *)

Blank(s) == ~Truthy(Trim(s))

Locked(st, n) == getStepStatus(st, n) = "locked"

\* both modals cover the page: the page is clickable when neither is open
PageInteractive == confirmation = NoConfirmation /\ ~isModalOpen

\* `disabled || isLoading` of the ActionButton of each rerun handler
RerunButtonEnabled(st, n) ==
    CASE n = 1 -> ~st.isTopicConfirmed /\ ~IsLoading(st, 1)
      [] n = 2 -> /\ ~(Locked(st, 2) \/ Blank(st.topic))
                  /\ ~(IsLoading(st, 2) /\ Blank(st.supplementalResearchQuery))
      [] n = 3 -> /\ ~(Locked(st, 3) \/ Blank(st.topic) \/ Blank(st.researchData))
                  /\ ~IsLoading(st, 3)
      [] n = 4 -> /\ ~(Locked(st, 4) \/ Len(st.characters) = 0
                        \/ Blank(st.topic) \/ Blank(st.researchData))
                  /\ ~(IsLoading(st, 4) /\ Blank(st.meetingTranscript))
      [] n = 5 -> /\ ~(Locked(st, 5) \/ Blank(st.topic) \/ Blank(st.researchData)
                        \/ Blank(st.meetingTranscript))
                  /\ ~IsLoading(st, 5)

\* the supplemental research button
SupplementalButtonEnabled(st) ==
    ~( (IsLoading(st, 2) /\ ~Blank(st.supplementalResearchQuery))
       \/ Blank(st.supplementalResearchQuery)
       \/ Locked(st, 2) )

\* the extend button rendered whatever the transcript
ExtendButtonEnabled_Always(st) ==
    /\ ~(Locked(st, 4) \/ Blank(st.topic) \/ Blank(st.researchData)
          \/ Len(st.characters) = 0)
    /\ ~(IsLoading(st, 4) /\ ~Blank(st.meetingTranscript))

\* the extend button: rendered when step 4 is logically completed
ExtendButtonEnabled(st) ==
    /\ isStepLogicallyCompleted(st, 4)
    /\ ~(Locked(st, 4) \/ Blank(st.topic) \/ Blank(st.researchData)
          \/ Len(st.characters) = 0)
    /\ ~(IsLoading(st, 4) /\ ~Blank(st.meetingTranscript))

\* isClickable with every step clickable
SidebarClickable_Always(st, n) == TRUE

\* isClickable of the Sidebar
SidebarClickable(st, n) ==
    n <= st.step \/ (n > st.step /\ isStepLogicallyCompletedForSidebar(st, n))

\* the step whose status locks the PromptEditor of a slot
SlotStep(slot) ==
    CASE slot = "step1" -> 1
      [] slot \in {"step2", "step2Add"} -> 2
      [] slot = "step3" -> 3
      [] slot \in {"step4", "step4Extend", "step4System"} -> 4
      [] slot \in {"step5", "step5System"} -> 5

-----------------------------------------------------------------------------
(* Handlers as functions of the store *)

\* handleConfirmAndAdvance without its setStep(2)
handleConfirmAndAdvance_NoAdvance(st) ==
    IF Blank(st.topic)
    THEN [st EXCEPT !.error = TopicRequiredError]
    ELSE [st EXCEPT !.isTopicConfirmed = TRUE, !.error = NoError]

\* handleConfirmAndAdvance
handleConfirmAndAdvance(st) ==
    IF Blank(st.topic)
    THEN [st EXCEPT !.error = TopicRequiredError]
    ELSE [st EXCEPT !.isTopicConfirmed = TRUE, !.step = 2, !.error = NoError]

\* the values apiFn reads from the handler's closure when it is called
CapturedPrompt(st, kind) ==
    CASE kind = "topic" -> TopicPrompt(st.prompts.step1)
      [] kind = "group" ->
            GroupPrompt(st.topic, st.researchData, st.prompts.step3)
      [] OTHER -> <<>>

\* onConfirm of createRerunHandler without the invalidation
rerunOnConfirm_NoReset(st, stepToRerun) ==
    Dispatch(st, RerunKind(stepToRerun), <<>>)

\* onConfirm of createRerunHandler: resetStepsFrom(stepToRerun); actionFn()
rerunOnConfirm(st, stepToRerun) ==
    Dispatch(resetStepsFrom(st, stepToRerun), RerunKind(stepToRerun), <<>>)

\* performSupplementalResearchAction, up to its await
performSupplementalResearchAction(st, query) ==
    Dispatch(resetStepsFrom(st, 3), "supplemental", query)

\* hasSubsequentProgress of handleSupplementalResearch
hasSubsequentProgress(st) ==
    Len(st.characters) > 0 \/ ~Blank(st.meetingTranscript) \/ ~Blank(st.finalArticle)

\* deleteCharacter that drops the last character whatever the index
deleteCharacter_Pop(st, indexToDelete) ==
    [st EXCEPT !.characters = SubSeq(st.characters, 1, Len(st.characters) - 1)]

\* deleteCharacter(indexToDelete), indices from 1
deleteCharacter(st, indexToDelete) ==
    [st EXCEPT !.characters =
        SubSeq(st.characters, 1, indexToDelete - 1)
            \o SubSeq(st.characters, indexToDelete + 1, Len(st.characters))]

\* handleSaveCharacter putting the new character in front
handleSaveCharacter_Prepends(st, character) ==
    resetStepsFrom([st EXCEPT !.characters = <<character>> \o st.characters], 4)

\* handleSaveCharacter
handleSaveCharacter(st, character) ==
    resetStepsFrom([st EXCEPT !.characters = Append(st.characters, character)], 4)

\* onConfirm of handleExtendDiscussion, up to its await
extendOnConfirm(st) == Dispatch(resetStepsFrom(st, 5), "extend", <<>>)

\* a pending confirmation: the closure held in `confirmation`
Confirmation(kind, step, index, query, prompt) ==
    [kind |-> kind, step |-> step, index |-> index, query |-> query,
     prompt |-> prompt]

-----------------------------------------------------------------------------
(* Inputs of the application model *)

TopicInputs == {<<" ">>, <<"t">>}
\* generateTopic returns response.text.trim()
GeneratedTopics == {<<"g">>}
QueryInputs == {<<>>, <<"q", " ">>}
ArticleInputs == {<<>>, <<"e">>}
EditedSlots == {"step1", "step3"}
PromptInputs == {<<"edited">>}
CharacterInputs ==
    {Character2, [name |-> "", profession |-> "p", background |-> "b"]}
GeneratedGroups == {<<Character1, Character2>>}

Cite(title, uri) == [title |-> title, uri |-> uri]

\* 51 non-whitespace characters
LongText == Rep("x", 51)

\* the chunks of a grounded response: text (possibly none) and citations
ResearchChunks ==
    { [text |-> <<>>,     citations |-> <<Cite("a", "u1")>>],
      [text |-> LongText, citations |-> <<>>],
      [text |-> <<"r">>,  citations |-> <<Cite("b", "u1"), Cite("a", "u2")>>] }

DiscussionChunks == {[text |-> <<"d">>, citations |-> <<>>]}
ArticleChunks == {[text |-> <<"f">>, citations |-> <<>>]}

ChunksOf(kind) ==
    CASE kind \in {"research", "supplemental"} -> ResearchChunks
      [] kind \in {"start", "extend"} -> DiscussionChunks
      [] kind = "article" -> ArticleChunks

Thrown == {RateLimited, Boom}

\* a persisted record of a finished workflow, as reloaded from localStorage
WorkedStore ==
    [InitialStore EXCEPT
        !.step = 5,
        !.topic = <<"t">>,
        !.isTopicConfirmed = TRUE,
        !.researchData = LongText,
        !.citations = <<Cite("a", "u1")>>,
        !.characters = <<Character1, Character2>>,
        !.meetingTranscript = <<"d">>,
        !.finalArticle = <<"f">>]

StartStores == {InitialStore, WorkedStore}

-----------------------------------------------------------------------------
(* The application: user actions *)

Op(name, step) == [name |-> name, step |-> step]

\* one more handler or API event of the behaviour
Tick ==
    /\ events < MaxEvents
    /\ events' = events + 1

Init ==
    /\ store \in StartStores
    /\ confirmation = NoConfirmation
    /\ isModalOpen = FALSE
    /\ calls = <<>>
    /\ dispatched = 0
    /\ events = 0
    /\ lastOp = [name |-> "init"]

\* the topic textarea: setTopic(e.target.value)
SetTopic(v) ==
    /\ Tick
    /\ PageInteractive
    /\ v # store.topic
    /\ store' = [store EXCEPT !.topic = v]
    /\ lastOp' = Op("setTopic", 1)
    /\ UNCHANGED <<confirmation, isModalOpen, calls, dispatched>>

\* the confirm-and-advance button
ConfirmAndAdvance ==
    /\ Tick
    /\ PageInteractive
    /\ ~store.isTopicConfirmed
    /\ ~Blank(store.topic)
    /\ store' = handleConfirmAndAdvance(store)
    /\ lastOp' = [name |-> "handleConfirmAndAdvance", step |-> 1,
                  hadError |-> store.error # NoError]
    /\ UNCHANGED <<confirmation, isModalOpen, calls, dispatched>>

\* a rerun handler on a step that is not logically completed: actionFn()
RunStep(n) ==
    /\ Tick
    /\ PageInteractive
    /\ RerunButtonEnabled(store, n)
    /\ ~isStepLogicallyCompleted(store, n)
    /\ dispatched < MaxDispatches
    /\ store' = Dispatch(store, RerunKind(n), <<>>)
    /\ calls' = Append(calls, NewCall(RerunKind(n), <<>>,
                                      CapturedPrompt(store, RerunKind(n)),
                                      store))
    /\ dispatched' = dispatched + 1
    /\ lastOp' = [name |-> "run", step |-> n, before |-> store]
    /\ UNCHANGED <<confirmation, isModalOpen>>

\* a rerun handler on a logically completed step: setConfirmation(...)
RequestRerun(n) ==
    /\ Tick
    /\ PageInteractive
    /\ RerunButtonEnabled(store, n)
    /\ isStepLogicallyCompleted(store, n)
    /\ confirmation' = Confirmation("rerun", n, 0, <<>>,
                                    CapturedPrompt(store, RerunKind(n)))
    /\ lastOp' = Op("requestRerun", n)
    /\ UNCHANGED <<store, isModalOpen, calls, dispatched>>

\* the confirm button on a rerun confirmation
AcceptRerun ==
    /\ Tick
    /\ confirmation.kind = "rerun"
    /\ dispatched < MaxDispatches
    /\ store' = rerunOnConfirm(store, confirmation.step)
    /\ calls' = Append(calls, NewCall(RerunKind(confirmation.step), <<>>,
                                      confirmation.prompt,
                                      resetStepsFrom(store, confirmation.step)))
    /\ confirmation' = NoConfirmation
    /\ dispatched' = dispatched + 1
    /\ lastOp' = [name |-> "acceptRerun", step |-> confirmation.step,
                  before |-> store]
    /\ UNCHANGED isModalOpen

\* handleResetTopicConfirmation
RequestResetTopic ==
    /\ Tick
    /\ PageInteractive
    /\ store.isTopicConfirmed
    /\ confirmation' = Confirmation("resetTopic", 1, 0, <<>>, <<>>)
    /\ lastOp' = Op("requestResetTopic", 1)
    /\ UNCHANGED <<store, isModalOpen, calls, dispatched>>

AcceptResetTopic ==
    /\ Tick
    /\ confirmation.kind = "resetTopic"
    /\ store' = resetStepsFrom(store, 1)
    /\ confirmation' = NoConfirmation
    /\ lastOp' = Op("acceptResetTopic", 1)
    /\ UNCHANGED <<isModalOpen, calls, dispatched>>

\* a PromptEditor: setPrompts(p => ({...p, [slot]: v}))
SetPrompts(slot, v) ==
    /\ Tick
    /\ PageInteractive
    /\ ~Locked(store, SlotStep(slot))
    /\ v # store.prompts[slot]
    /\ store' = [store EXCEPT !.prompts[slot] = v]
    /\ lastOp' = Op("setPrompts", SlotStep(slot))
    /\ UNCHANGED <<confirmation, isModalOpen, calls, dispatched>>

\* a next-step button that skips a step: setStep(k + 2)
ProceedFrom_Skips(k) ==
    /\ Tick
    /\ PageInteractive
    /\ isStepLogicallyCompleted(store, k)
    /\ store' = [store EXCEPT !.step = k + 2]
    /\ lastOp' = Op("proceed", k)
    /\ UNCHANGED <<confirmation, isModalOpen, calls, dispatched>>

\* the next-step button of step k: setStep(k + 1)
ProceedFrom(k) ==
    /\ Tick
    /\ PageInteractive
    /\ isStepLogicallyCompleted(store, k)
    /\ store' = [store EXCEPT !.step = k + 1]
    /\ lastOp' = Op("proceed", k)
    /\ UNCHANGED <<confirmation, isModalOpen, calls, dispatched>>

\* a Sidebar entry: navigateToStep(n), that is setStep(n)
NavigateToStep(n) ==
    /\ Tick
    /\ PageInteractive
    /\ SidebarClickable(store, n)
    /\ store' = [store EXCEPT !.step = n]
    /\ lastOp' = [name |-> "navigate", step |-> n, from |-> store.step,
                  wasCompleted |-> isStepLogicallyCompleted(store, n)]
    /\ UNCHANGED <<confirmation, isModalOpen, calls, dispatched>>

\* the supplemental query field
SetSupplementalResearchQuery(v) ==
    /\ Tick
    /\ PageInteractive
    /\ ~Locked(store, 2)
    /\ v # store.supplementalResearchQuery
    /\ store' = [store EXCEPT !.supplementalResearchQuery = v]
    /\ lastOp' = Op("setSupplementalResearchQuery", 2)
    /\ UNCHANGED <<confirmation, isModalOpen, calls, dispatched>>

\* handleSupplementalResearch with no progress downstream
RunSupplemental ==
    /\ Tick
    /\ PageInteractive
    /\ SupplementalButtonEnabled(store)
    /\ ~Blank(store.supplementalResearchQuery)
    /\ ~hasSubsequentProgress(store)
    /\ dispatched < MaxDispatches
    /\ store' = performSupplementalResearchAction(
                    store, Trim(store.supplementalResearchQuery))
    /\ calls' = Append(calls, NewCall("supplemental",
                                      Trim(store.supplementalResearchQuery), <<>>,
                                      resetStepsFrom(store, 3)))
    /\ dispatched' = dispatched + 1
    /\ lastOp' = Op("runSupplemental", 2)
    /\ UNCHANGED <<confirmation, isModalOpen>>

\* handleSupplementalResearch with progress downstream
RequestSupplemental ==
    /\ Tick
    /\ PageInteractive
    /\ SupplementalButtonEnabled(store)
    /\ ~Blank(store.supplementalResearchQuery)
    /\ hasSubsequentProgress(store)
    /\ confirmation' = Confirmation("supplemental", 2, 0,
                                    Trim(store.supplementalResearchQuery), <<>>)
    /\ lastOp' = Op("requestSupplemental", 2)
    /\ UNCHANGED <<store, isModalOpen, calls, dispatched>>

\* onConfirm = performSupplementalResearchAction: its closure saw
\* confirmation = null, so it never closes the dialog
AcceptSupplemental ==
    /\ Tick
    /\ confirmation.kind = "supplemental"
    /\ dispatched < MaxDispatches
    /\ store' = performSupplementalResearchAction(store, confirmation.query)
    /\ calls' = Append(calls, NewCall("supplemental", confirmation.query, <<>>,
                                      resetStepsFrom(store, 3)))
    /\ dispatched' = dispatched + 1
    /\ lastOp' = Op("acceptSupplemental", 2)
    /\ UNCHANGED <<confirmation, isModalOpen>>

\* the add-character button
OpenAddCharacter ==
    /\ Tick
    /\ PageInteractive
    /\ ~Locked(store, 3)
    /\ isModalOpen' = TRUE
    /\ lastOp' = Op("openAddCharacter", 3)
    /\ UNCHANGED <<store, confirmation, calls, dispatched>>

\* handleSave of AddCharacterModal, and handleSaveCharacter
SubmitCharacter(character) ==
    /\ Tick
    /\ isModalOpen
    /\ Len(store.characters) < MaxCharacters
    /\ IF character.name # "" /\ character.profession # ""
            /\ character.background # ""
       THEN /\ store' = handleSaveCharacter(store, character)
            /\ isModalOpen' = FALSE
            /\ lastOp' = [name |-> "saveCharacter", step |-> 3,
                          character |-> character]
       ELSE /\ UNCHANGED <<store, isModalOpen>>
            /\ lastOp' = [name |-> "rejectCharacter", step |-> 3,
                          character |-> character]
    /\ UNCHANGED <<confirmation, calls, dispatched>>

\* the cancel button of AddCharacterModal
CloseAddCharacter ==
    /\ Tick
    /\ isModalOpen
    /\ isModalOpen' = FALSE
    /\ lastOp' = Op("closeAddCharacter", 3)
    /\ UNCHANGED <<store, confirmation, calls, dispatched>>

\* handleDeleteCharacter(index)
RequestDeleteCharacter(index) ==
    /\ Tick
    /\ PageInteractive
    /\ index \in 1..Len(store.characters)
    /\ confirmation' = Confirmation("delete", 3, index, <<>>, <<>>)
    /\ lastOp' = Op("requestDelete", 3)
    /\ UNCHANGED <<store, isModalOpen, calls, dispatched>>

AcceptDeleteCharacter ==
    /\ Tick
    /\ confirmation.kind = "delete"
    /\ store' = resetStepsFrom(deleteCharacter(store, confirmation.index), 4)
    /\ confirmation' = NoConfirmation
    /\ lastOp' = [name |-> "acceptDelete", step |-> 3,
                  index |-> confirmation.index]
    /\ UNCHANGED <<isModalOpen, calls, dispatched>>

\* handleExtendDiscussion
RequestExtend ==
    /\ Tick
    /\ PageInteractive
    /\ ExtendButtonEnabled(store)
    /\ confirmation' = Confirmation("extend", 4, 0, <<>>, <<>>)
    /\ lastOp' = Op("requestExtend", 4)
    /\ UNCHANGED <<store, isModalOpen, calls, dispatched>>

\* onConfirm of handleExtendDiscussion: the dialog is closed only after the
\* awaited call has returned
AcceptExtend ==
    /\ Tick
    /\ confirmation.kind = "extend"
    /\ dispatched < MaxDispatches
    /\ store' = extendOnConfirm(store)
    /\ calls' = Append(calls, NewCall("extend", <<>>, <<>>,
                                      resetStepsFrom(store, 5)))
    /\ dispatched' = dispatched + 1
    /\ lastOp' = Op("acceptExtend", 4)
    /\ UNCHANGED <<confirmation, isModalOpen>>

\* the article textarea, rendered when finalArticle is not empty
SetFinalArticle(v) ==
    /\ Tick
    /\ PageInteractive
    /\ Truthy(store.finalArticle)
    /\ v # store.finalArticle
    /\ store' = [store EXCEPT !.finalArticle = v]
    /\ lastOp' = Op("setFinalArticle", 5)
    /\ UNCHANGED <<confirmation, isModalOpen, calls, dispatched>>

\* handleResetAll: window.confirm, then resetAll()
ResetAll(accepted) ==
    /\ Tick
    /\ PageInteractive
    /\ store' = IF accepted THEN resetAll(store) ELSE store
    /\ lastOp' = Op(IF accepted THEN "resetAll" ELSE "resetAllDeclined", 1)
    /\ UNCHANGED <<confirmation, isModalOpen, calls, dispatched>>

\* onCancel with the pending onConfirm of a rerun run by mistake
CancelConfirmation_Invalidates ==
    /\ Tick
    /\ confirmation # NoConfirmation
    /\ confirmation' = NoConfirmation
    /\ store' = resetStepsFrom(store, confirmation.step)
    /\ lastOp' = [name |-> "cancel", step |-> confirmation.step,
                  kind |-> confirmation.kind]
    /\ UNCHANGED <<isModalOpen, calls, dispatched>>

\* onCancel of ConfirmationModal: setConfirmation(null)
CancelConfirmation ==
    /\ Tick
    /\ confirmation # NoConfirmation
    /\ confirmation' = NoConfirmation
    /\ lastOp' = [name |-> "cancel", step |-> confirmation.step,
                  kind |-> confirmation.kind]
    /\ UNCHANGED <<store, isModalOpen, calls, dispatched>>

-----------------------------------------------------------------------------
(* The application: what the API delivers to the suspended calls *)

\* the success path with the confirm-and-advance that performAITopicGeneration
\* leaves commented out
applyResult_AutoAdvance(st, c, result) ==
    LET applied == IF c.kind = "topic"
                   THEN [st EXCEPT !.topic = result, !.isTopicConfirmed = TRUE,
                                   !.step = 2]
                   ELSE [st EXCEPT !.characters = result, !.step = 4]
    IN  [SetLoadingKey(applied, c.step, FALSE) EXCEPT !.preparingStep = NoStep]

\* the success path without the promptUpdater
applyResult_KeepsPrompt(st, c, result) ==
    EndCall(IF c.kind = "topic" THEN [st EXCEPT !.topic = result]
                                ELSE [st EXCEPT !.characters = result],
            c.step)

\* the awaited apiFn() of handleApiCall resolves
applyResult(st, c, result) ==
    LET applied == IF c.kind = "topic"
                   THEN [st EXCEPT !.topic = result]
                   ELSE [st EXCEPT !.characters = result]
        slot == IF c.kind = "topic" THEN "step1" ELSE "step3"
        \* if (prompt && promptUpdater) promptUpdater(prompt)
        prompted == IF Truthy(c.prompt)
                    THEN [applied EXCEPT !.prompts[slot] = c.prompt]
                    ELSE applied
    IN  EndCall(prompted, c.step)

\* the stream is exhausted: onComplete, finally, and the awaiting handler
streamExhausted(st, c) ==
    AfterCall(EndCall(onComplete(st, c.kind, c.collected), c.step), c, TRUE)

\* the catch path with the buffer put back to what onStart left
callThrew_RollsBack(st, c, e) ==
    AfterCall(FailCall(onStart(st, c.kind, c.query), c.step, e), c, FALSE)

\* the request or the stream throws: catch, finally, and the awaiting handler
callThrew(st, c, e) == AfterCall(FailCall(st, c.step, e), c, FALSE)

\* the chunk reaches the for-await of handleStreamApiCall: the generators of
\* the research streams yield only chunks with text, and of a main research
\* response only the chunks its second generator receives
ReachesUI(c, chunk) ==
    /\ c.kind = "research" => ResearchConsumer(c.responses) = "ui"
    /\ c.kind \in {"research", "supplemental"} => Truthy(chunk.text)

\* setConfirmation(null) after the awaited call of handleExtendDiscussion
ConfirmationAfter(c) ==
    IF c.kind = "extend" THEN NoConfirmation ELSE confirmation

\* the awaited streamApiFn() resolves: the for-await begins
ApiRespond(i) ==
    /\ Tick
    /\ i \in DOMAIN calls
    /\ calls[i].pc = "request"
    /\ calls[i].kind \in StreamKinds
    /\ calls' = [calls EXCEPT ![i].pc = "stream"]
    /\ lastOp' = Op("respond", calls[i].step)
    /\ UNCHANGED <<store, confirmation, isModalOpen, dispatched>>

\* the awaited apiFn() resolves with a result
ApiResult(i, result) ==
    /\ Tick
    /\ i \in DOMAIN calls
    /\ calls[i].pc = "request"
    /\ calls[i].kind \notin StreamKinds
    /\ store' = applyResult(store, calls[i], result)
    /\ calls' = RemoveAt(calls, i)
    /\ lastOp' = [name |-> "completed", step |-> calls[i].step,
                  kind |-> calls[i].kind, fragments |-> <<>>,
                  collected |-> <<>>, result |-> result]
    /\ UNCHANGED <<confirmation, isModalOpen, dispatched>>

\* a catch block that issues the request again instead of returning
AfterCatch_Retries(cs, i) == [cs EXCEPT ![i].pc = "request"]

\* the calls in flight once call i has gone through catch and finally: the
\* handler returns false and the invocation is over
AfterCatch(cs, i) == RemoveAt(cs, i)

\* the awaited apiFn() or streamApiFn() rejects
ApiReject(i, e) ==
    /\ Tick
    /\ i \in DOMAIN calls
    /\ calls[i].pc = "request"
    /\ store' = callThrew(store, calls[i], e)
    /\ confirmation' = ConfirmationAfter(calls[i])
    /\ calls' = AfterCatch(calls, i)
    /\ lastOp' = [name |-> "failed", step |-> calls[i].step,
                  kind |-> calls[i].kind, fragments |-> <<>>,
                  collected |-> <<>>, thrown |-> e, prior |-> store.error]
    /\ UNCHANGED <<isModalOpen, dispatched>>

\* the response delivers its next chunk
StreamChunk(i, chunk) ==
    /\ Tick
    /\ i \in DOMAIN calls
    /\ calls[i].pc = "stream"
    /\ calls[i].responses < MaxChunks
    /\ LET c == calls[i]
           ui == ReachesUI(c, chunk)
       IN  /\ store' = IF ui THEN ConsumeChunk(store, c, chunk.text) ELSE store
           /\ calls' = [calls EXCEPT ![i] =
                  [c EXCEPT
                     !.responses  = c.responses + 1,
                     !.collected  = IF c.kind \in {"research", "supplemental"}
                                    THEN CollectCitations(c.collected, chunk.citations)
                                    ELSE c.collected,
                     !.firstChunk = c.firstChunk /\ ~ui,
                     !.fragments  = IF ui THEN Append(c.fragments, chunk.text)
                                    ELSE c.fragments]]
           /\ lastOp' = [name |-> "chunk", step |-> c.step, kind |-> c.kind,
                         ui |-> ui]
    /\ UNCHANGED <<confirmation, isModalOpen, dispatched>>

\* the response is exhausted
StreamEnd(i) ==
    /\ Tick
    /\ i \in DOMAIN calls
    /\ calls[i].pc = "stream"
    /\ store' = streamExhausted(store, calls[i])
    /\ confirmation' = ConfirmationAfter(calls[i])
    /\ calls' = RemoveAt(calls, i)
    /\ lastOp' = [name |-> "completed", step |-> calls[i].step,
                  kind |-> calls[i].kind, fragments |-> calls[i].fragments,
                  collected |-> calls[i].collected]
    /\ UNCHANGED <<isModalOpen, dispatched>>

\* the response throws instead of delivering its next chunk: in a main
\* research stream the generator that asked receives the exception, and when
\* that is the background one the UI's generator just ends
StreamFail(i, e) ==
    /\ Tick
    /\ i \in DOMAIN calls
    /\ calls[i].pc = "stream"
    /\ LET c == calls[i]
           swallowed == c.kind = "research"
                        /\ ResearchConsumer(c.responses) = "background"
       IN  /\ store' = IF swallowed THEN streamExhausted(store, c)
                                    ELSE callThrew(store, c, e)
           /\ lastOp' = IF swallowed
                        THEN [name |-> "completed", step |-> c.step,
                              kind |-> c.kind, fragments |-> c.fragments,
                              collected |-> c.collected]
                        ELSE [name |-> "failed", step |-> c.step,
                              kind |-> c.kind, fragments |-> c.fragments,
                              collected |-> c.collected, thrown |-> e,
                              prior |-> store.error]
    /\ confirmation' = ConfirmationAfter(calls[i])
    /\ calls' = RemoveAt(calls, i)
    /\ UNCHANGED <<isModalOpen, dispatched>>

-----------------------------------------------------------------------------
(* The application as a whole *)

UserAction ==
    \/ \E v \in TopicInputs : SetTopic(v)
    \/ ConfirmAndAdvance
    \/ \E n \in Steps : RunStep(n)
    \/ \E n \in Steps : RequestRerun(n)
    \/ RequestResetTopic
    \/ \E slot \in EditedSlots, v \in PromptInputs : SetPrompts(slot, v)
    \/ \E k \in 2..4 : ProceedFrom(k)
    \/ \E n \in Steps : NavigateToStep(n)
    \/ \E v \in QueryInputs : SetSupplementalResearchQuery(v)
    \/ RunSupplemental
    \/ RequestSupplemental
    \/ OpenAddCharacter
    \/ \E character \in CharacterInputs : SubmitCharacter(character)
    \/ CloseAddCharacter
    \/ \E index \in 1..MaxCharacters : RequestDeleteCharacter(index)
    \/ RequestExtend
    \/ \E v \in ArticleInputs : SetFinalArticle(v)
    \/ \E accepted \in BOOLEAN : ResetAll(accepted)

ModalAction ==
    \/ AcceptRerun
    \/ AcceptResetTopic
    \/ AcceptSupplemental
    \/ AcceptDeleteCharacter
    \/ AcceptExtend
    \/ CancelConfirmation

ApiEvent ==
    \/ \E i \in 1..MaxDispatches : ApiRespond(i)
    \/ \E i \in 1..MaxDispatches :
            \E result \in IF i \in DOMAIN calls /\ calls[i].kind = "topic"
                          THEN GeneratedTopics ELSE GeneratedGroups :
                ApiResult(i, result)
    \/ \E i \in 1..MaxDispatches :
            \E e \in Thrown \cup
                     (IF i \in DOMAIN calls /\ calls[i].kind = "group"
                      THEN {InvalidFormat} ELSE {}) :
                ApiReject(i, e)
    \/ \E i \in 1..MaxDispatches :
            \E chunk \in IF i \in DOMAIN calls /\ calls[i].kind \in StreamKinds
                         THEN ChunksOf(calls[i].kind) ELSE {} :
                StreamChunk(i, chunk)
    \/ \E i \in 1..MaxDispatches : StreamEnd(i)
    \/ \E i \in 1..MaxDispatches, e \in Thrown : StreamFail(i, e)

Next == UserAction \/ ModalAction \/ ApiEvent

Spec == Init /\ [][Next]_vars

-----------------------------------------------------------------------------
(* handleStreamApiCall on its own: one streaming call of a step whose     *)
(* onStart empties the buffer, with no other handler running meanwhile    *)

\* the steps whose onStart leaves the buffer empty
AggregatedSteps == {2, 4, 5}

\* the fragments a stream yields
FragmentInputs == {<<"A">>, <<"B">>, <<"C", " ">>}
FragmentChunks == [text : FragmentInputs, citations : {<<>>, <<Cite("a", "u1")>>}]

\* stores in which one of the steps can be run or rerun
StreamStores ==
    { WorkedStore,
      [resetStepsFrom(WorkedStore, 2) EXCEPT !.step = 2],
      [resetStepsFrom(WorkedStore, 4) EXCEPT !.step = 4],
      resetStepsFrom(WorkedStore, 5) }

InitStream ==
    /\ store \in StreamStores
    /\ confirmation = NoConfirmation
    /\ isModalOpen = FALSE
    /\ calls = <<>>
    /\ dispatched = 0
    /\ events = 0
    /\ lastOp = [name |-> "init"]

NextStream ==
    \/ \E n \in AggregatedSteps : dispatched = 0 /\ RunStep(n)
    \/ \E n \in AggregatedSteps : dispatched = 0 /\ calls = <<>> /\ RequestRerun(n)
    \/ dispatched = 0 /\ AcceptRerun
    \/ ApiRespond(1)
    \/ \E e \in Thrown : ApiReject(1, e)
    \/ \E chunk \in FragmentChunks : StreamChunk(1, chunk)
    \/ StreamEnd(1)
    \/ \E e \in Thrown : StreamFail(1, e)

SpecStream == InitStream /\ [][NextStream]_vars

-----------------------------------------------------------------------------
(* One generation call of any kind, from the click that dispatches it to  *)
(* its end, with no other handler running meanwhile.  The API answers:    *)
(* a pending request resolves or rejects, a stream delivers its next      *)
(* chunk, ends or throws.                                                 *)

\* stores in which one of the calls can be made
CallStores ==
    { InitialStore,
      [WorkedStore EXCEPT !.supplementalResearchQuery = <<"q">>],
      [resetStepsFrom(WorkedStore, 3) EXCEPT
            !.step = 3, !.supplementalResearchQuery = <<"q">>],
      [resetStepsFrom(WorkedStore, 2) EXCEPT
            !.step = 2, !.researchData = <<"r">>],
      [resetStepsFrom(WorkedStore, 4) EXCEPT !.step = 4],
      resetStepsFrom(WorkedStore, 5),
      \* the article generation has just failed on the quota
      [resetStepsFrom(WorkedStore, 5) EXCEPT !.error = QuotaError] }

InitCall ==
    /\ store \in CallStores
    /\ confirmation = NoConfirmation
    /\ isModalOpen = FALSE
    /\ calls = <<>>
    /\ dispatched = 0
    /\ events = 0
    /\ lastOp = [name |-> "init"]

NextCall ==
    \/ \E n \in Steps : dispatched = 0 /\ RunStep(n)
    \/ \E n \in Steps : dispatched = 0 /\ RequestRerun(n)
    \/ dispatched = 0 /\ AcceptRerun
    \/ dispatched = 0 /\ RunSupplemental
    \/ dispatched = 0 /\ RequestSupplemental
    \/ dispatched = 0 /\ AcceptSupplemental
    \/ dispatched = 0 /\ RequestExtend
    \/ dispatched = 0 /\ AcceptExtend
    \/ ApiEvent

SpecCall == InitCall /\ [][NextCall]_vars /\ WF_vars(ApiEvent)

-----------------------------------------------------------------------------
(* resetStepsFrom as a function of the store: every populated store *)

ResetLoadings ==
    UNION {{[k \in D |-> TRUE], [k \in D |-> k % 2 = 0]} : D \in SUBSET Steps}

ResetInputs ==
    { [ step                      |-> IF v THEN 5 ELSE 2,
        loading                   |-> l,
        preparingStep             |-> IF v THEN 4 ELSE NoStep,
        error                     |-> IF v THEN QuotaError ELSE NoError,
        topic                     |-> IF b[1] THEN <<"t">> ELSE <<>>,
        isTopicConfirmed          |-> b[2],
        researchData              |-> IF b[3] THEN <<"r">> ELSE <<>>,
        supplementalResearchQuery |-> IF b[3] THEN <<"q">> ELSE <<>>,
        citations                 |-> IF b[4]
                                      THEN <<[title |-> "a", uri |-> "u1"]>>
                                      ELSE <<>>,
        characters                |-> IF b[5] THEN <<Character1>> ELSE <<>>,
        meetingTranscript         |-> IF b[6] THEN <<"m">> ELSE <<>>,
        finalArticle              |-> IF b[7] THEN <<"f">> ELSE <<>>,
        prompts                   |-> IF v
                                      THEN [DEFAULT_PROMPTS EXCEPT !.step3 = <<"edited">>]
                                      ELSE DEFAULT_PROMPTS ]
      : b \in [1..7 -> BOOLEAN], l \in ResetLoadings, v \in BOOLEAN }

InitReset ==
    /\ store \in ResetInputs
    /\ confirmation = NoConfirmation
    /\ isModalOpen = FALSE
    /\ calls = <<>>
    /\ dispatched = 0
    /\ events = 0
    /\ lastOp = [name |-> "init"]

\* one call of the store action resetStepsFrom(fromStep)
ApplyResetStepsFrom(fromStep) ==
    /\ lastOp.name = "init"
    /\ store' = resetStepsFrom(store, fromStep)
    /\ lastOp' = [name |-> "resetStepsFrom", step |-> fromStep, before |-> store]
    /\ UNCHANGED <<confirmation, isModalOpen, calls, dispatched, events>>

NextReset == \E fromStep \in Steps : ApplyResetStepsFrom(fromStep)

SpecReset == InitReset /\ [][NextReset]_vars

-----------------------------------------------------------------------------
(* The completion predicate as a function of the store *)

\* k non-whitespace characters, with w whitespace characters in front, in the
\* middle and at the end
Padded(k, w) ==
    Rep(" ", w) \o Rep("x", k \div 2) \o Rep("\n", w)
                \o Rep("x", k - (k \div 2)) \o Rep("\t", w)

ResearchInputs == {Padded(k, w) : k \in 0..MaxNonWs, w \in 0..1}

TextInputs == {<<>>, <<" ", "\n">>, <<" ", "m", "\t">>}

PolicyInputs ==
    { [InitialStore EXCEPT
          !.isTopicConfirmed  = b[1],
          !.topic             = IF b[1] THEN <<"t">> ELSE <<>>,
          !.researchData      = r,
          !.citations         = IF b[2]
                                THEN <<[title |-> "a", uri |-> "u1"]>>
                                ELSE <<>>,
          !.characters        = IF b[3] THEN <<Character1>> ELSE <<>>,
          !.meetingTranscript = m,
          !.finalArticle      = f]
      : b \in [1..3 -> BOOLEAN], r \in ResearchInputs,
        m \in TextInputs, f \in TextInputs }

InitPolicy ==
    /\ store \in PolicyInputs
    /\ confirmation = NoConfirmation
    /\ isModalOpen = FALSE
    /\ calls = <<>>
    /\ dispatched = 0
    /\ events = 0
    /\ lastOp = [name |-> "init"]

\* one evaluation of the predicate, by App and by Sidebar
EvaluateCompletion(stepNumber) ==
    /\ lastOp.name = "init"
    /\ lastOp' = [name    |-> "isStepLogicallyCompleted",
                  step    |-> stepNumber,
                  result  |-> isStepLogicallyCompleted(store, stepNumber),
                  sidebar |-> isStepLogicallyCompletedForSidebar(store, stepNumber),
                  before  |-> store]
    /\ UNCHANGED <<store, confirmation, isModalOpen, calls, dispatched, events>>

NextPolicy == \E stepNumber \in 0..6 : EvaluateCompletion(stepNumber)

SpecPolicy == InitPolicy /\ [][NextPolicy]_vars

-----------------------------------------------------------------------------
(* The citation merge as a function of two citation sequences *)

InitMerge ==
    /\ store = InitialStore
    /\ confirmation = NoConfirmation
    /\ isModalOpen = FALSE
    /\ calls = <<>>
    /\ dispatched = 0
    /\ events = 0
    /\ \E A \in SeqsUpTo(CitationPool, MaxCitations),
          B \in SeqsUpTo(CitationPool, MaxCitations) :
            lastOp = [name |-> "init", A |-> A, B |-> B]

\* setCitations(prev => merged) with the first sequence, then with the second
ApplyMerge ==
    /\ lastOp.name \in {"init", "mergedA"}
    /\ store' = [store EXCEPT !.citations =
                    MergeCitations(store.citations,
                                   IF lastOp.name = "init" THEN lastOp.A
                                                           ELSE lastOp.B)]
    /\ lastOp' = [lastOp EXCEPT !.name =
                    IF lastOp.name = "init" THEN "mergedA" ELSE "mergedB"]
    /\ UNCHANGED <<confirmation, isModalOpen, calls, dispatched, events>>

NextMerge == ApplyMerge

SpecMerge == InitMerge /\ [][NextMerge]_vars

-----------------------------------------------------------------------------
(* Properties of resetStepsFrom, checked under SpecReset *)

Populated(st) ==
    /\ st.topic # <<>> /\ st.isTopicConfirmed
    /\ st.researchData # <<>> /\ st.citations # <<>>
    /\ st.characters # <<>>
    /\ st.meetingTranscript # <<>>
    /\ st.finalArticle # <<>>

\* C3: after resetStepsFrom(N) the primary entity of every step K >= N is at
\* its empty default (1: topic '' and unconfirmed; 2: researchData '', query ''
\* and no citations; 3: no characters; 4: transcript ''; 5: article ''), the
\* loading map has no key >= N, and error is null.
C3_ResetClearsFromStep ==
    lastOp.name = "resetStepsFrom" =>
        LET N == lastOp.step IN
        /\ N <= 1 => store.topic = <<>> /\ store.isTopicConfirmed = FALSE
        /\ N <= 2 => /\ store.researchData = <<>>
                     /\ store.supplementalResearchQuery = <<>>
                     /\ store.citations = <<>>
        /\ N <= 3 => store.characters = <<>>
        /\ N <= 4 => store.meetingTranscript = <<>>
        /\ N <= 5 => store.finalArticle = <<>>
        /\ \A k \in DOMAIN store.loading : k < N
        /\ store.error = NoError

\* resetStepsFrom(3) applied to a store with all five steps populated, loading
\* keys on both sides of 3 and an error set
C3_Witness ==
    /\ lastOp.name = "resetStepsFrom"
    /\ lastOp.step = 3
    /\ Populated(lastOp.before)
    /\ DOMAIN lastOp.before.loading = Steps
    /\ lastOp.before.error # NoError
    /\ store.characters = <<>>

\* C4: resetStepsFrom(N) leaves unchanged the primary entities of every step
\* K < N and the loading entries of the steps K < N, and leaves step, prompts
\* and preparingStep unchanged.
C4_ResetFrame ==
    lastOp.name = "resetStepsFrom" =>
        LET N == lastOp.step
            b == lastOp.before
        IN
        /\ 1 < N => store.topic = b.topic /\ store.isTopicConfirmed = b.isTopicConfirmed
        /\ 2 < N => /\ store.researchData = b.researchData
                    /\ store.supplementalResearchQuery = b.supplementalResearchQuery
                    /\ store.citations = b.citations
        /\ 3 < N => store.characters = b.characters
        /\ 4 < N => store.meetingTranscript = b.meetingTranscript
        /\ \A k \in 1..(N - 1) :
                /\ k \in DOMAIN store.loading <=> k \in DOMAIN b.loading
                /\ k \in DOMAIN b.loading => store.loading[k] = b.loading[k]
        /\ store.step = b.step
        /\ store.prompts = b.prompts
        /\ store.preparingStep = b.preparingStep

\* resetStepsFrom(3) on a populated store whose upstream steps, loading[1..2],
\* edited prompts and preparing marker all survive
C4_Witness ==
    /\ lastOp.name = "resetStepsFrom"
    /\ lastOp.step = 3
    /\ Populated(lastOp.before)
    /\ store.topic # <<>> /\ store.researchData # <<>> /\ store.citations # <<>>
    /\ DOMAIN lastOp.before.loading = Steps
    /\ DOMAIN store.loading = {1, 2}
    /\ store.prompts # DEFAULT_PROMPTS
    /\ store.preparingStep # NoStep

-----------------------------------------------------------------------------
(* Properties of the completion predicate, checked under SpecPolicy *)

\* the number of positions of s holding a non-whitespace character
NonWhitespaceCount(s) == Cardinality({i \in DOMAIN s : s[i] \notin Whitespace})

\* s has a character that trim() keeps
HasVisibleCharacter(s) == \E i \in DOMAIN s : s[i] \notin Whitespace

CompletionTable(st, n) ==
    \/ n = 1 /\ st.isTopicConfirmed
    \/ n = 2 /\ (NonWhitespaceCount(st.researchData) > 50 \/ st.citations # <<>>)
    \/ n = 3 /\ st.characters # <<>>
    \/ n = 4 /\ HasVisibleCharacter(st.meetingTranscript)
    \/ n = 5 /\ HasVisibleCharacter(st.finalArticle)

\* C5: the completion predicate follows the table (1: topic confirmed; 2: more
\* than 50 non-whitespace characters of researchData, or a citation; 3: a
\* character; 4: a non-blank transcript; 5: a non-blank article; false for any
\* other step number), for App and for Sidebar alike, and evaluating it
\* changes no state.
C5_CompletionTable ==
    lastOp.name = "isStepLogicallyCompleted" =>
        /\ lastOp.result = CompletionTable(store, lastOp.step)
        /\ lastOp.sidebar = CompletionTable(store, lastOp.step)
        /\ store = lastOp.before

\* step 4 evaluated on a whitespace-only transcript, where trim() decides
C5_Witness ==
    /\ lastOp.name = "isStepLogicallyCompleted"
    /\ lastOp.step = 4
    /\ store.meetingTranscript # <<>>
    /\ lastOp.result = FALSE

\* C6: with no citations step 2 is not completed when researchData is
\* whitespace-only or has at most 50 non-whitespace characters, and is
\* completed from 51 non-whitespace characters on; with a citation it is
\* completed even when researchData is empty.
C6_Step2Boundary ==
    (lastOp.name = "isStepLogicallyCompleted" /\ lastOp.step = 2) =>
        LET n == NonWhitespaceCount(store.researchData) IN
        /\ (store.citations = <<>> /\ n <= 50) => lastOp.result = FALSE
        /\ n >= 51 => lastOp.result = TRUE
        /\ store.citations # <<>> => lastOp.result = TRUE

\* step 2 evaluated on exactly 50 non-whitespace characters between
\* whitespace, with no citations
C6_Witness ==
    /\ lastOp.name = "isStepLogicallyCompleted"
    /\ lastOp.step = 2
    /\ store.citations = <<>>
    /\ NonWhitespaceCount(store.researchData) = 50
    /\ Len(store.researchData) > 50
    /\ lastOp.result = FALSE

-----------------------------------------------------------------------------
(* Properties of the citation merge, checked under SpecMerge *)

\* the first position of uri u in the citation sequence s
FirstIndex(s, u) == CHOOSE i \in DOMAIN s :
                        /\ s[i].uri = u
                        /\ \A j \in 1..(i - 1) : s[j].uri # u

\* C8: merging A into the empty list and then B gives a list that holds each
\* distinct uri of A and B exactly once, with the title of its first
\* occurrence in A followed by B, ordered by first occurrence (A's first
\* occurrences, then B's new uris in B's order).
C8_MergeDedupOrdered ==
    lastOp.name = "mergedB" =>
        LET S == lastOp.A \o lastOp.B
            R == store.citations
        IN
        /\ \A i, j \in DOMAIN R : i # j => R[i].uri # R[j].uri
        /\ {R[i].uri : i \in DOMAIN R} = {S[i].uri : i \in DOMAIN S}
        /\ \A i \in DOMAIN R : R[i] = S[FirstIndex(S, R[i].uri)]
        /\ \A i, j \in DOMAIN R :
                i < j => FirstIndex(S, R[i].uri) < FirstIndex(S, R[j].uri)

\* A repeats a uri under two titles; B brings that uri again and a new one
C8_Witness ==
    /\ lastOp.name = "mergedB"
    /\ Len(lastOp.A) = 2 /\ lastOp.A[1].uri = lastOp.A[2].uri
    /\ lastOp.A[1].title # lastOp.A[2].title
    /\ Len(lastOp.B) = 2 /\ lastOp.B[1].uri = lastOp.A[1].uri
    /\ lastOp.B[2].uri # lastOp.A[1].uri
    /\ Len(store.citations) = 2

-----------------------------------------------------------------------------
(* Properties of the rerun gate, checked under Spec *)

\* C1: triggering a rerun handler on a logically completed step and then
\* cancelling the confirmation changes no workflow state (entities, loading,
\* preparingStep, error, step), runs no invalidation and dispatches no call.
C1_DeclineChangesNothing ==
    [][ (\/ lastOp'.name = "requestRerun"
         \/ (lastOp'.name = "cancel" /\ lastOp'.kind = "rerun"))
        => /\ store' = store
           /\ calls' = calls
           /\ dispatched' = dispatched ]_vars

\* the confirmation of a rerun of step 3 has been cancelled over a store with
\* every step populated and nothing in flight
C1_Witness ==
    /\ lastOp.name = "cancel"
    /\ lastOp.kind = "rerun"
    /\ lastOp.step = 3
    /\ isStepLogicallyCompleted(store, 3)
    /\ Populated(store)
    /\ confirmation = NoConfirmation
    /\ calls = <<>>

\* the entities of step k in st
StepEntities(st, k) ==
    CASE k = 1 -> <<st.topic, st.isTopicConfirmed>>
      [] k = 2 -> <<st.researchData, st.supplementalResearchQuery, st.citations>>
      [] k = 3 -> <<st.characters>>
      [] k = 4 -> <<st.meetingTranscript>>
      [] k = 5 -> <<st.finalArticle>>

\* C2: once the rerun of a logically completed step N is confirmed, the call
\* for step N is in flight over a store in which every step K >= N is at its
\* empty default and every step K < N is as it was; a handler run on a step
\* that is not logically completed dispatches the call at once, opens no
\* confirmation and leaves every other step as it was.  In both cases the
\* call is marked: loading[N], preparingStep = N, error null.
C2_AcceptResetsThenDispatches ==
    /\ lastOp.name = "acceptRerun" =>
          LET N == lastOp.step
              b == lastOp.before
          IN  /\ isStepLogicallyCompleted(b, N)
              /\ \A k \in Steps :
                    StepEntities(store, k) =
                        IF k >= N THEN StepEntities(InitialStore, k)
                                  ELSE StepEntities(b, k)
              /\ \A k \in DOMAIN store.loading : k <= N
              /\ IsLoading(store, N)
              /\ store.preparingStep = N
              /\ store.error = NoError
              /\ calls # <<>>
              /\ calls[Len(calls)].kind = RerunKind(N)
              /\ calls[Len(calls)].pc = "request"
              /\ confirmation = NoConfirmation
    /\ lastOp.name = "run" =>
          LET N == lastOp.step
              b == lastOp.before
          IN  /\ ~isStepLogicallyCompleted(b, N)
              /\ \A k \in Steps \ {N} : StepEntities(store, k) = StepEntities(b, k)
              /\ \A k \in Steps \ {N} :
                    /\ k \in DOMAIN store.loading <=> k \in DOMAIN b.loading
                    /\ k \in DOMAIN b.loading => store.loading[k] = b.loading[k]
              /\ IsLoading(store, N)
              /\ store.preparingStep = N
              /\ store.error = NoError
              /\ calls # <<>>
              /\ calls[Len(calls)].kind = RerunKind(N)
              /\ calls[Len(calls)].pc = "request"
              /\ confirmation = NoConfirmation
    \* onConfirm as a function of the store, for every step and every
    \* reachable store in which the step is logically completed
    /\ \A N \in Steps :
          isStepLogicallyCompleted(store, N) =>
              LET s == rerunOnConfirm(store, N)
              IN  /\ \A k \in Steps :
                        StepEntities(s, k) =
                            IF k >= N THEN StepEntities(InitialStore, k)
                                      ELSE StepEntities(store, k)
                  /\ IsLoading(s, N)
                  /\ s.preparingStep = N

\* the rerun of step 3 has been confirmed over a store with every step
\* populated: steps 3..5 are empty, steps 1..2 stand, the call is in flight
C2_Witness ==
    /\ lastOp.name = "acceptRerun"
    /\ lastOp.step = 3
    /\ Populated(lastOp.before)
    /\ store.characters = <<>>
    /\ store.meetingTranscript = <<>>
    /\ store.finalArticle = <<>>
    /\ store.researchData # <<>>
    /\ Len(calls) = 1
    /\ calls[1].kind = "group"

-----------------------------------------------------------------------------
(* Properties of the Sidebar, checked under Spec *)

\* C7: the Sidebar entry of step N is enabled exactly when N <= step or step
\* N is logically completed, and no navigation through the Sidebar lands on a
\* step that was ahead of the current one and not logically completed.
C7_NavigationRule ==
    /\ \A n \in Steps :
          SidebarClickable(store, n)
              <=> (n <= store.step \/ isStepLogicallyCompleted(store, n))
    /\ lastOp.name = "navigate" =>
          ~(lastOp.step > lastOp.from /\ ~lastOp.wasCompleted)

\* a jump ahead through the Sidebar to a logically completed step, landing
\* where the next step is ahead, not completed and so not enabled
C7_Witness ==
    /\ lastOp.name = "navigate"
    /\ lastOp.step > lastOp.from
    /\ lastOp.wasCompleted
    /\ store.step = lastOp.step
    /\ \E n \in Steps : n > store.step /\ ~SidebarClickable(store, n)

-----------------------------------------------------------------------------
(* Properties of the citations of the store, checked under Spec *)

\* C9: in every reachable state no two entries of store.citations share a uri.
C9_CitationUrisUnique ==
    \A i, j \in DOMAIN store.citations :
        store.citations[i].uri = store.citations[j].uri => i = j

\* a research stream whose chunks repeated a uri has completed, and the store
\* holds one citation for each of the two uris
C9_Witness ==
    /\ lastOp.name = "completed"
    /\ lastOp.kind \in {"research", "supplemental"}
    /\ \E i \in DOMAIN lastOp.collected : lastOp.collected[i].uri = "u1"
    /\ store.citations = <<Cite("a", "u1"), Cite("a", "u2")>>

-----------------------------------------------------------------------------
(* Properties of handleStreamApiCall, checked under SpecStream *)

RECURSIVE Concat(_)
Concat(fragments) ==
    IF fragments = <<>> THEN <<>>
    ELSE Head(fragments) \o Concat(Tail(fragments))

\* the buffer the onChunk of a step appends to
Buffer(st, stepNumber) ==
    CASE stepNumber = 2 -> st.researchData
      [] stepNumber = 4 -> st.meetingTranscript
      [] stepNumber = 5 -> st.finalArticle

\* C10: while a stream delivers fragments f1..fk to handleStreamApiCall the
\* buffer that onStart emptied is f1 \o .. \o fk (onChunk ran once per
\* fragment, in order), preparingStep is null from the first fragment on, and
\* when the stream is exhausted after fn the buffer is f1 \o .. \o fn, the
\* effect of onComplete is in the store, the call is over and cannot complete
\* again.
C10_StreamAggregation ==
    /\ \A i \in DOMAIN calls :
          /\ Buffer(store, calls[i].step) = Concat(calls[i].fragments)
          /\ calls[i].fragments # <<>> => store.preparingStep = NoStep
          /\ calls[i].firstChunk <=> calls[i].fragments = <<>>
    /\ lastOp.name = "completed" =>
          /\ Buffer(store, lastOp.step) = Concat(lastOp.fragments)
          /\ store.preparingStep = NoStep
          /\ ~IsLoading(store, lastOp.step)
          /\ store.error = NoError
          /\ lastOp.kind = "research" => store.citations = lastOp.collected
          /\ calls = <<>>

\* a stream of three different fragments has been delivered and exhausted
C10_Witness ==
    /\ lastOp.name = "completed"
    /\ Len(lastOp.fragments) = 3
    /\ lastOp.fragments[1] # lastOp.fragments[2]
    /\ lastOp.fragments[2] # lastOp.fragments[3]
    /\ lastOp.fragments[1] # lastOp.fragments[3]
    /\ Buffer(store, lastOp.step) = Concat(lastOp.fragments)
    /\ Len(Buffer(store, lastOp.step)) = 4

\* C11: when the stream of a call for step S throws after k >= 0 fragments
\* were delivered, the buffer holds those k fragments (nothing is rolled
\* back), onComplete has not run (the citations are as onStart left them),
\* loading[S] is false, preparingStep is null and error is set.
C11_PartialResultsKept ==
    lastOp.name = "failed" =>
        /\ Buffer(store, lastOp.step) = Concat(lastOp.fragments)
        /\ lastOp.kind = "research" => store.citations = <<>>
        /\ ~IsLoading(store, lastOp.step)
        /\ store.preparingStep = NoStep
        /\ store.error # NoError
        /\ calls = <<>>

\* a stream has thrown after two different fragments, both still in the buffer
C11_Witness ==
    /\ lastOp.name = "failed"
    /\ Len(lastOp.fragments) = 2
    /\ lastOp.fragments[1] # lastOp.fragments[2]
    /\ Buffer(store, lastOp.step) = lastOp.fragments[1] \o lastOp.fragments[2]
    /\ store.error # NoError

-----------------------------------------------------------------------------
(* Properties of one call from dispatch to end, checked under SpecCall *)

Ended == lastOp.name \in {"completed", "failed"}

\* C12: every call that is dispatched, single-shot or streaming, ends (the
\* stream being finite), and when it has ended, by success, by a rejected
\* request or by an exception in the stream, loading[S] is false and
\* preparingStep is null.
C12_GuaranteedCleanup ==
    /\ [](Ended => /\ ~IsLoading(store, lastOp.step)
                   /\ store.preparingStep = NoStep
                   /\ calls = <<>>)
    /\ (calls # <<>>) ~> (calls = <<>> /\ Ended)

\* a streaming call has ended by an exception after a fragment, and a
\* single-shot call is told apart by its kind
C12_Witness ==
    /\ lastOp.name = "failed"
    /\ lastOp.kind \in StreamKinds
    /\ lastOp.fragments # <<>>
    /\ ~IsLoading(store, lastOp.step)
    /\ store.preparingStep = NoStep
    /\ calls = <<>>

\* the buffer of a step among the entities
EntityBuffer(e, stepNumber) ==
    CASE stepNumber = 1 -> e.topic
      [] stepNumber = 2 -> e.researchData
      [] stepNumber = 3 -> <<>>
      [] stepNumber = 4 -> e.meetingTranscript
      [] stepNumber = 5 -> e.finalArticle

\* the entities e with the buffer of a streaming step replaced
WithBuffer(e, stepNumber, buffer) ==
    CASE stepNumber = 2 -> [e EXCEPT !.researchData = buffer]
      [] stepNumber = 4 -> [e EXCEPT !.meetingTranscript = buffer]
      [] stepNumber = 5 -> [e EXCEPT !.finalArticle = buffer]
      [] OTHER -> e

\* C13: when a generation call fails, every workflow entity (topic,
\* confirmation flag, researchData, citations, characters, transcript,
\* article, prompts, step) has the value it had just before the call was
\* made, except that the buffer of the failing step is followed by the
\* fragments streamed before the failure.
C13_FailureLeavesStateIntact ==
    [][ lastOp'.name = "failed" =>
            LET c == calls[1]
            IN  Entities(store') =
                    WithBuffer(c.before, c.step,
                               EntityBuffer(c.before, c.step)
                                   \o Concat(c.fragments)) ]_vars

\* an extension whose request was rejected before any fragment: the
\* transcript that was "d" now ends with the banner of the extension
C13_Witness ==
    /\ lastOp.name = "failed"
    /\ lastOp.kind = "extend"
    /\ lastOp.fragments = <<>>
    /\ store.meetingTranscript = <<"d">> \o ExtensionSeparator
    /\ store.error # NoError

-----------------------------------------------------------------------------
(* Properties of the calls in flight, checked under Spec *)

\* C14: no two generation requests that write the same step's entity are in
\* flight at the same time.
C14_NoSharedWriters ==
    \A i, j \in DOMAIN calls : i # j => calls[i].step # calls[j].step

\* a main research run and a supplemental research run, both writing
\* researchData, are in flight together
C14_Witness ==
    \E i, j \in DOMAIN calls :
        /\ calls[i].kind = "supplemental"
        /\ calls[j].kind = "research"
        /\ IsLoading(store, 2)

\* C15: no two discussion requests of step 4 (start or extend) are in flight
\* at the same time.
C15_NoConcurrentDiscussion ==
    \A i, j \in DOMAIN calls :
        i # j => ~(calls[i].kind \in {"start", "extend"}
                   /\ calls[j].kind \in {"start", "extend"})

\* two extensions are in flight, both accepted from the one dialog, which is
\* still open
C15_Witness ==
    /\ Len(calls) = 2
    /\ calls[1].kind = "extend"
    /\ calls[2].kind = "extend"
    /\ confirmation.kind = "extend"

\* C16: whenever an extend request is dispatched, the transcript in the store
\* at that moment, after the confirmation was accepted and before onStart adds
\* its banner, is non-blank.
C16_ExtendNeedsTranscript ==
    lastOp.name = "acceptExtend" =>
        /\ calls # <<>>
        /\ calls[Len(calls)].kind = "extend"
        /\ ~Blank(calls[Len(calls)].before.meetingTranscript)
        /\ ~Blank(store.meetingTranscript)

\* an extension has just been dispatched over the transcript "d"
C16_Witness ==
    /\ lastOp.name = "acceptExtend"
    /\ Len(calls) = 1
    /\ calls[1].kind = "extend"
    /\ calls[1].before.meetingTranscript = <<"d">>
    /\ store.meetingTranscript = <<"d">> \o ExtensionSeparator

\* the steps of a behaviour that belong to a generation call: its dispatch
\* and what the API delivers to it
CallStepNames ==
    {"run", "acceptRerun", "runSupplemental", "acceptSupplemental",
     "acceptExtend", "respond", "chunk", "completed", "failed"}

\* the handlers that may change step
StepChangers == {"navigate", "proceed", "handleConfirmAndAdvance", "resetAll"}

BlankTopics == {<<>>, <<" ">>, <<" ", " ">>}

\* C18: handleConfirmAndAdvance on a non-blank topic sets isTopicConfirmed and
\* step = 2 in one step of the behaviour, clears error and writes nothing
\* else, and isTopicConfirmed never becomes true in a step that does not also
\* set step to 2; on a blank topic it sets the error message and changes
\* neither isTopicConfirmed nor step.
C18_ConfirmAndAdvance ==
    /\ [][ /\ lastOp'.name = "handleConfirmAndAdvance" =>
                 /\ ~Blank(store.topic)
                 /\ store' = [store EXCEPT !.isTopicConfirmed = TRUE,
                                           !.step = 2, !.error = NoError]
           /\ (store'.isTopicConfirmed /\ ~store.isTopicConfirmed) =>
                 /\ lastOp'.name = "handleConfirmAndAdvance"
                 /\ store'.step = 2 ]_vars
    /\ [](\A blank \in BlankTopics :
            LET st == [store EXCEPT !.topic = blank]
            IN  handleConfirmAndAdvance(st) =
                    [st EXCEPT !.error = TopicRequiredError])

\* a typed topic has been confirmed from step 1 while an error was shown
C18_Witness ==
    /\ lastOp.name = "handleConfirmAndAdvance"
    /\ lastOp.hadError
    /\ store.topic = <<"t">>
    /\ store.isTopicConfirmed
    /\ store.step = 2
    /\ store.error = NoError

-----------------------------------------------------------------------------
(* The panel editor alone: manual additions and deletions over panels of up
   to MaxPanel characters, with no call in flight *)

MaxPanel == 3

PanelCharacters == {Character1, Character2, Character3}

Panels == UNION { [1..n -> PanelCharacters] : n \in 1..MaxPanel }

\* what the three inputs of AddCharacterModal can hold at a submission
PanelInputs ==
    { Character3,
      [name |-> " ", profession |-> "p", background |-> "b"],
      [name |-> "",  profession |-> "p", background |-> "b"],
      [name |-> "n", profession |-> "",  background |-> "b"],
      [name |-> "n", profession |-> "p", background |-> ""],
      [name |-> "",  profession |-> "",  background |-> ""] }

\* a finished workflow with each panel, and a workflow that has reached
\* step 3 with no panel yet
PanelStores ==
    { [WorkedStore EXCEPT !.characters = panel] : panel \in Panels }
        \cup { [resetStepsFrom(WorkedStore, 3) EXCEPT !.step = 3] }

InitPanel ==
    /\ store \in PanelStores
    /\ confirmation = NoConfirmation
    /\ isModalOpen = FALSE
    /\ calls = <<>>
    /\ dispatched = 0
    /\ events = 0
    /\ lastOp = [name |-> "init"]

NextPanel ==
    \/ \E index \in 1..MaxPanel : RequestDeleteCharacter(index)
    \/ AcceptDeleteCharacter
    \/ CancelConfirmation
    \/ OpenAddCharacter
    \/ \E character \in PanelInputs : SubmitCharacter(character)
    \/ CloseAddCharacter

SpecPanel == InitPanel /\ [][NextPanel]_vars

\* C19: confirming the deletion of the character at an index of a panel of n
\* characters leaves exactly the other n-1 characters in their order, empties
\* meetingTranscript and finalArticle, and leaves topic, research and
\* citations unchanged; cancelling the confirmation changes nothing.
C19_CharacterDeletion ==
    [][ /\ lastOp'.name = "acceptDelete" =>
              LET old == store.characters
                  new == store'.characters
                  i   == lastOp'.index
                  n   == Len(old)
              IN  /\ i \in 1..n
                  /\ Len(new) = n - 1
                  /\ \A j \in 1..(n - 1) :
                        new[j] = IF j < i THEN old[j] ELSE old[j + 1]
                  /\ store'.meetingTranscript = <<>>
                  /\ store'.finalArticle = <<>>
                  /\ store'.topic = store.topic
                  /\ store'.isTopicConfirmed = store.isTopicConfirmed
                  /\ store'.researchData = store.researchData
                  /\ store'.citations = store.citations
        /\ (lastOp'.name = "cancel" /\ lastOp'.kind = "delete") =>
              /\ store' = store
              /\ calls' = calls
              /\ isModalOpen' = isModalOpen ]_vars

\* the middle character of a panel of three has been deleted from a finished
\* workflow
C19_Witness ==
    /\ lastOp.name = "acceptDelete"
    /\ lastOp.index = 2
    /\ store.characters = <<Character1, Character3>>
    /\ store.meetingTranscript = <<>>
    /\ store.finalArticle = <<>>
    /\ store.researchData = WorkedStore.researchData
    /\ store.citations = WorkedStore.citations

\* name && profession && background
FieldsFilled(character) ==
    character.name # "" /\ character.profession # ""
        /\ character.background # ""

\* C20: a submitted character is accepted exactly when its name, profession
\* and background are all non-empty; an accepted character is appended at the
\* end of the panel, whose existing characters keep their places, and
\* meetingTranscript and finalArticle are emptied; a rejected submission
\* changes no state of the workflow.
C20_CharacterAddition ==
    [][ /\ lastOp'.name = "saveCharacter" =>
              /\ FieldsFilled(lastOp'.character)
              /\ store'.characters = store.characters \o <<lastOp'.character>>
              /\ store'.meetingTranscript = <<>>
              /\ store'.finalArticle = <<>>
              /\ store'.topic = store.topic
              /\ store'.isTopicConfirmed = store.isTopicConfirmed
              /\ store'.researchData = store.researchData
              /\ store'.citations = store.citations
              /\ store'.step = store.step
        /\ lastOp'.name = "rejectCharacter" =>
              /\ ~FieldsFilled(lastOp'.character)
              /\ store' = store
              /\ calls' = calls
              /\ confirmation' = confirmation ]_vars

\* a character has been added by hand to a panel of one in a finished
\* workflow
C20_Witness ==
    /\ lastOp.name = "saveCharacter"
    /\ lastOp.character = Character3
    /\ store.characters = <<Character1, Character3>>
    /\ store.meetingTranscript = <<>>
    /\ store.finalArticle = <<>>
    /\ store.researchData = WorkedStore.researchData

\* the uris of a citation list
Uris(citations) == {citations[j].uri : j \in DOMAIN citations}

\* the research calls in flight
ResearchKinds == {"research", "supplemental"}

\* C21: after the k-th chunk of a research or supplemental research response
\* has been consumed, the citations of the store contain every citation the
\* chunks 1..k carried, and they are still there after a stream that failed.
C21_CitationsMergedPerChunk ==
    /\ \A i \in DOMAIN calls :
          calls[i].kind \in ResearchKinds =>
              Uris(calls[i].collected) \subseteq Uris(store.citations)
    /\ (lastOp.name = "failed" /\ lastOp.kind \in ResearchKinds) =>
          Uris(lastOp.collected) \subseteq Uris(store.citations)

\* a supplemental research stream has failed after a chunk that carried the
\* citation u2, and the store has only the citation it had before
C21_Witness ==
    /\ lastOp.name = "failed"
    /\ lastOp.kind = "supplemental"
    /\ "u2" \in Uris(lastOp.collected)
    /\ store.citations = WorkedStore.citations
    /\ "u2" \notin Uris(store.citations)

\* C22: for every extension in flight that started from the transcript T,
\* meetingTranscript is T, then the banner, then the fragments that call has
\* received so far, in order: T stays a prefix and the banner stands once,
\* before every fragment of the run.
C22_ExtensionAppendOnly ==
    \A i \in DOMAIN calls :
        calls[i].kind = "extend" =>
            store.meetingTranscript =
                calls[i].before.meetingTranscript \o ExtensionSeparator
                    \o Concat(calls[i].fragments)

\* an extension of the transcript "d" is in flight, its dialog was cancelled,
\* and the deletion of a character has emptied the transcript
C22_Witness ==
    /\ lastOp.name = "acceptDelete"
    /\ Len(calls) = 1
    /\ calls[1].kind = "extend"
    /\ calls[1].before.meetingTranscript = <<"d">>
    /\ store.meetingTranscript = <<>>

\* the handlers that run resetStepsFrom(1) or resetAll
TopicResetters == {"acceptResetTopic", "resetAll"}

\* C23: once isTopicConfirmed is true it stays true until resetStepsFrom(1)
\* or resetAll runs: a step that turns it false is the accepted topic reset,
\* an accepted rerun of step 1, or resetAll, and never a topic edit, a step of
\* a generation call, a navigation or an invalidation from a later step.
C23_ConfirmationIrreversible ==
    [][ (store.isTopicConfirmed /\ ~store'.isTopicConfirmed) =>
            \/ lastOp'.name \in TopicResetters
            \/ lastOp'.name = "acceptRerun" /\ lastOp'.step = 1 ]_vars

\* the confirmed topic has been edited to a blank and is still confirmed
C23_Witness ==
    /\ lastOp.name = "setTopic"
    /\ Blank(store.topic)
    /\ store.isTopicConfirmed

-----------------------------------------------------------------------------
(* The persisted record: partialize, and the store after a reload *)

\* the state keys of AppState
StateKeys == DOMAIN InitialStore

\* the action keys of AppState
ActionKeys ==
    {"setStep", "setLoading", "setPreparingStep", "setError", "setTopic",
     "confirmTopic", "setResearchData", "setSupplementalResearchQuery",
     "setCitations", "setCharacters", "addCharacter", "deleteCharacter",
     "setMeetingTranscript", "setFinalArticle", "saveFinalArticleEdit",
     "setPrompts", "resetStepsFrom", "resetAll", "appendToResearch"}

\* the keys partialize filters out
PartializeExcluded ==
    {"loading", "preparingStep", "error", "setLoading", "setPreparingStep",
     "setError", "setStep", "setTopic", "confirmTopic", "setResearchData",
     "setSupplementalResearchQuery", "setCitations", "setCharacters",
     "addCharacter", "deleteCharacter", "setMeetingTranscript",
     "setFinalArticle", "setPrompts", "resetStepsFrom", "resetAll",
     "appendToResearch", "saveFinalArticleEdit"}

\* the exclusion list without 'error'
PartializeExcluded_KeepsError == PartializeExcluded \ {"error"}

\* the entries of the store object that pass the filter of `excluded`
PartializeWith(st, excluded) ==
    [key \in (StateKeys \cup ActionKeys) \ excluded |->
        IF key \in StateKeys THEN st[key] ELSE "function"]

\* partialize with 'error' persisted
partialize_KeepsError(st) == PartializeWith(st, PartializeExcluded_KeepsError)

\* partialize(state)
partialize(st) == PartializeWith(st, PartializeExcluded)

\* no record under the storage key
NoRecord == [key \in {} |-> "function"]

\* the store after creation with `record` in storage: the initial state with
\* the entries of the record over it
Rehydrate(record) ==
    [key \in StateKeys |->
        IF key \in DOMAIN record THEN record[key] ELSE InitialStore[key]]

\* the page is loaded again: the store is created from the record that the
\* last set() left in storage
Reload ==
    /\ lastOp.name = "init"
    /\ store' = Rehydrate(partialize(store))
    /\ lastOp' = [name |-> "reload", before |-> store]
    /\ UNCHANGED <<confirmation, isModalOpen, calls, dispatched, events>>

\* the page is loaded again after the storage was cleared
ReloadWithoutRecord ==
    /\ lastOp.name = "init"
    /\ store' = Rehydrate(NoRecord)
    /\ lastOp' = [name |-> "reloadWithoutRecord", before |-> store]
    /\ UNCHANGED <<confirmation, isModalOpen, calls, dispatched, events>>

NextPersist == Reload \/ ReloadWithoutRecord

SpecPersist == InitReset /\ [][NextPersist]_vars

\* the keys the claim lists: the five step entities, the confirmation flag,
\* the citations and the prompts
ListedKeys ==
    {"topic", "researchData", "characters", "meetingTranscript",
     "finalArticle", "isTopicConfirmed", "citations", "prompts"}

ThrownInputs ==
    { RateLimited, Boom, InvalidFormat,
      [isError |-> TRUE,  message |-> <<"RESOURCE_EXHAUSTED", "quota">>],
      [isError |-> TRUE,  message |-> <<>>],
      [isError |-> FALSE, message |-> <<"got", "429">>] }

\* the message the claim prescribes for an Error thrown in a call of step n
PrescribedError(n, e) ==
    IF \E i \in DOMAIN e.message : e.message[i] \in {"429", "RESOURCE_EXHAUSTED"}
    THEN QuotaError
    ELSE [kind |-> "stepFailed", step |-> n, message |-> e.message]

\* the steps of a behaviour that dispatch a call
DispatchNames ==
    {"run", "acceptRerun", "runSupplemental", "acceptSupplemental",
     "acceptExtend"}

\* C25: every failed call sets the one error slot, whatever it held, to the
\* quota message when the Error's message contains '429' or
\* 'RESOURCE_EXHAUSTED' and otherwise to a message with the step number and
\* the Error's message; every dispatch of a call sets error to null.
C25_ErrorSlot ==
    /\ [][ /\ lastOp'.name = "failed" =>
                 /\ store'.error = PrescribedError(lastOp'.step, lastOp'.thrown)
                 /\ store'.error # NoError
           /\ lastOp'.name \in DispatchNames => store'.error = NoError ]_vars
    /\ [](\A n \in Steps, e \in ThrownInputs :
            e.isError => ErrorMessage(n, e) = PrescribedError(n, e))

\* a call of step 2 has failed with a plain Error while the quota message of
\* another failed call was shown
C25_Witness ==
    /\ lastOp.name = "failed"
    /\ lastOp.prior = QuotaError
    /\ lastOp.thrown = Boom
    /\ store.error = [kind |-> "stepFailed", step |-> 2, message |-> <<"boom">>]

\* the steps of a behaviour in which the API delivers something to a call
ApiEventNames == {"respond", "chunk", "completed", "failed"}

\* C26: a request is dispatched only by a user action, one per action; a step
\* in which the API delivers a response, a chunk, an end or a failure
\* dispatches none, and after a failure the calls in flight are the other
\* calls, so the failed request is not issued again; a malformed panel
\* response leaves characters unchanged and sets error.
C26_NoAutomaticRetry ==
    [][ /\ dispatched' # dispatched =>
              /\ dispatched' = dispatched + 1
              /\ lastOp'.name \in DispatchNames
              /\ Len(calls') = Len(calls) + 1
              /\ SubSeq(calls', 1, Len(calls)) = calls
        /\ lastOp'.name \in ApiEventNames =>
              /\ dispatched' = dispatched
              /\ Len(calls') <= Len(calls)
        /\ lastOp'.name = "failed" =>
              /\ Len(calls') = Len(calls) - 1
              /\ \E i \in DOMAIN calls : calls' = RemoveAt(calls, i)
        /\ (lastOp'.name = "failed" /\ lastOp'.thrown = InvalidFormat) =>
              /\ lastOp'.kind = "group"
              /\ store'.characters = store.characters
              /\ store'.error = [kind |-> "stepFailed", step |-> 3,
                                 message |-> InvalidFormat.message] ]_vars

\* a panel generation has failed on a malformed response while the panel held
\* a character added by hand; nothing is in flight
C26_Witness ==
    /\ lastOp.name = "failed"
    /\ lastOp.thrown = InvalidFormat
    /\ store.characters = <<Character2>>
    /\ store.error.kind = "stepFailed"
    /\ calls = <<>>
    /\ dispatched = 1

-----------------------------------------------------------------------------
(* One single-shot call (topic or panel) alone, with the prompt editors and
   the topic field in use while it runs *)

SingleShotKinds == {"topic", "group"}

\* what a prompt editor can hold: emptied, rewritten, a bare placeholder
ShotPromptInputs == {<<>>, <<"edited">>, <<"{{topic}}">>}

\* a fresh workflow, a workflow at step 3 with no panel, and a finished one,
\* each with the prompts of steps 1 and 3 at their defaults or emptied
ShotStores ==
    { [s EXCEPT !.prompts.step1 = p1, !.prompts.step3 = p3] :
        s \in { InitialStore,
                [resetStepsFrom(WorkedStore, 3) EXCEPT !.step = 3],
                WorkedStore },
        p1 \in {DEFAULT_PROMPTS.step1, <<>>},
        p3 \in {DEFAULT_PROMPTS.step3, <<>>} }

InitShot ==
    /\ store \in ShotStores
    /\ confirmation = NoConfirmation
    /\ isModalOpen = FALSE
    /\ calls = <<>>
    /\ dispatched = 0
    /\ events = 0
    /\ lastOp = [name |-> "init"]

NextShot ==
    \/ \E n \in {1, 3} : dispatched = 0 /\ RunStep(n)
    \/ dispatched = 0 /\ RequestRerun(3)
    \/ dispatched = 0 /\ AcceptRerun
    \/ \E slot \in EditedSlots, v \in ShotPromptInputs : SetPrompts(slot, v)
    \/ \E v \in TopicInputs : SetTopic(v)
    \/ \E accepted \in BOOLEAN : ResetAll(accepted)
    \/ \E result \in IF calls # <<>> /\ calls[1].kind = "topic"
                     THEN GeneratedTopics ELSE GeneratedGroups :
            ApiResult(1, result)
    \/ \E e \in Thrown \cup (IF calls # <<>> /\ calls[1].kind = "group"
                             THEN {InvalidFormat} ELSE {}) :
            ApiReject(1, e)

SpecShot == InitShot /\ [][NextShot]_vars

\* the entity a single-shot call writes, and its prompt slot
Target(st, kind) == IF kind = "topic" THEN st.topic ELSE st.characters

PromptSlotOf(kind) == IF kind = "topic" THEN "step1" ELSE "step3"

\* the steps of a behaviour that may write a prompt slot
PromptWriters == {"setPrompts", "resetAll"}

\* a single-shot call has ended in this step
ShotEnded(name) == lastOp'.name = name /\ lastOp'.kind \in SingleShotKinds

\* C27 as stated: when a topic or panel generation succeeds its result is
\* the new value of the target entity and the prompt slot of the step is
\* overwritten with the prompt the call returned; when it fails neither the
\* target entity nor any prompt changes; apart from that a prompt changes only
\* in a user edit or resetAll.
C27_SingleShotOverwritesPrompt ==
    [][ /\ ShotEnded("completed") =>
              \E i \in DOMAIN calls :
                  /\ calls' = RemoveAt(calls, i)
                  /\ calls[i].kind = lastOp'.kind
                  /\ Target(store', lastOp'.kind) = lastOp'.result
                  /\ store'.prompts =
                        [store.prompts EXCEPT ![PromptSlotOf(lastOp'.kind)] =
                                                    calls[i].prompt]
        /\ ShotEnded("failed") =>
              /\ Target(store', lastOp'.kind) = Target(store, lastOp'.kind)
              /\ store'.prompts = store.prompts
        /\ store'.prompts # store.prompts =>
              \/ lastOp'.name \in PromptWriters
              \/ ShotEnded("completed") ]_vars

\* C27, amended: as stated, except that the prompt slot is overwritten only
\* when the prompt the call returned is not empty, and is left as it is
\* otherwise.
C27_SingleShotContract ==
    [][ /\ ShotEnded("completed") =>
              \E i \in DOMAIN calls :
                  /\ calls' = RemoveAt(calls, i)
                  /\ calls[i].kind = lastOp'.kind
                  /\ Target(store', lastOp'.kind) = lastOp'.result
                  /\ store'.prompts =
                        IF calls[i].prompt # <<>>
                        THEN [store.prompts EXCEPT
                                ![PromptSlotOf(lastOp'.kind)] = calls[i].prompt]
                        ELSE store.prompts
        /\ ShotEnded("failed") =>
              /\ Target(store', lastOp'.kind) = Target(store, lastOp'.kind)
              /\ store'.prompts = store.prompts
        /\ store'.prompts # store.prompts =>
              \/ lastOp'.name \in PromptWriters
              \/ ShotEnded("completed") ]_vars

\* a panel generation has succeeded: the panel is the result and the slot
\* step3 holds the template with topic and research filled in
C27_Witness ==
    /\ lastOp.name = "completed"
    /\ lastOp.kind = "group"
    /\ store.characters = <<Character1, Character2>>
    /\ store.prompts.step3 = <<"panel-gen", "t">> \o LongText
    /\ store.prompts.step1 = DEFAULT_PROMPTS.step1

\* s is the beginning of t
IsPrefix(s, t) == Len(s) <= Len(t) /\ SubSeq(t, 1, Len(s)) = s

\* C28: every fragment is appended to the value the buffer has in the store
\* at that moment, whatever was written to it since the previous fragment (an
\* edit of the article, a reset, a fragment of another call), and the
\* citations of a supplemental research are merged into the citations the
\* store has at that moment: the current citations stay in front and the
\* result has their uris and the collected ones.
C28_NoLostUpdates ==
    [][ /\ (lastOp'.name = "chunk" /\ lastOp'.ui) =>
              \E i \in DOMAIN calls :
                  /\ Len(calls') = Len(calls)
                  /\ Len(calls'[i].fragments) = Len(calls[i].fragments) + 1
                  /\ Buffer(store', calls[i].step) =
                        Buffer(store, calls[i].step)
                            \o calls'[i].fragments[Len(calls'[i].fragments)]
        /\ (lastOp'.name = "completed" /\ lastOp'.kind = "supplemental") =>
              /\ IsPrefix(store.citations, store'.citations)
              /\ Uris(store'.citations) =
                    Uris(store.citations) \cup Uris(lastOp'.collected) ]_vars

\* the article was edited to "e" between two fragments of a running article
\* generation: the second fragment stands behind the edit
C28_Witness ==
    /\ lastOp.name = "chunk"
    /\ lastOp.kind = "article"
    /\ Len(calls) = 1
    /\ calls[1].fragments = <<<<"f">>, <<"f">>>>
    /\ store.finalArticle = <<"e", "f">>

\* C29: in every reachable state step is an integer from 1 to 5.
C29_StepInRange == store.step \in 1..5

\* the last step has been reached with the next-step button of step 4
C29_Witness ==
    /\ lastOp.name = "proceed"
    /\ lastOp.step = 4
    /\ store.step = 5

\* what onStart leaves in the buffer of a streaming call: the empty string,
\* or the buffer the call found followed by a heading or a banner
Seed(c) ==
    CASE c.kind = "supplemental" -> c.before.researchData \o Heading(c.query)
      [] c.kind = "extend" -> c.before.meetingTranscript \o ExtensionSeparator
      [] OTHER -> <<>>

\* the citations before onComplete has run: emptied by the onStart of a main
\* research, untouched by the others
CitationsBeforeComplete(c) ==
    IF c.kind = "research" THEN <<>> ELSE c.before.citations

\* C30: a streaming call of step S, running alone, goes through its events in
\* this order. From its dispatch loading[S] is true, preparingStep is S, error
\* is null and the buffer is what onStart left; the request is then pending;
\* fragments arrive only once it has resolved, the first one sets
\* preparingStep to null, and the buffer is onStart's value followed by the
\* fragments; onComplete has not run while the call is in flight and runs when
\* the stream is exhausted; then loading[S] is false and preparingStep is
\* null, also when the stream had no fragment.
C30_StreamEventOrder ==
    /\ [](\A i \in DOMAIN calls :
            LET c == calls[i]
            IN  c.kind \in StreamKinds =>
                  /\ IsLoading(store, c.step)
                  /\ c.pc = "request" =>
                        c.fragments = <<>> /\ store.error = NoError
                  /\ c.fragments = <<>> => store.preparingStep = c.step
                  /\ c.fragments # <<>> =>
                        c.pc = "stream" /\ store.preparingStep = NoStep
                  /\ Buffer(store, c.step) = Seed(c) \o Concat(c.fragments)
                  /\ store.citations = CitationsBeforeComplete(c))
    /\ []((Ended /\ lastOp.kind \in StreamKinds) =>
            /\ ~IsLoading(store, lastOp.step)
            /\ store.preparingStep = NoStep)
    /\ [][ (lastOp'.name = "completed" /\ lastOp'.kind \in StreamKinds) =>
              /\ calls # <<>> /\ calls[1].pc = "stream"
              /\ Buffer(store', lastOp'.step) = Buffer(store, lastOp'.step)
              /\ lastOp'.kind = "research" =>
                    store'.citations = lastOp'.collected
              /\ lastOp'.kind = "supplemental" =>
                    /\ IsPrefix(store.citations, store'.citations)
                    /\ Uris(store'.citations) =
                          Uris(store.citations) \cup Uris(lastOp'.collected) ]_vars

\* a discussion stream has ended without a fragment: preparingStep, which was
\* 4 until then, and loading[4] are cleared
C30_Witness ==
    /\ lastOp.name = "completed"
    /\ lastOp.kind = "start"
    /\ lastOp.fragments = <<>>
    /\ store.meetingTranscript = <<>>
    /\ store.preparingStep = NoStep
    /\ ~IsLoading(store, 4)
    /\ calls = <<>>

-----------------------------------------------------------------------------
(* The main research run and the one response behind it, under SpecCall *)

\* C31: every chunk with text that the response of a main research run
\* produces is appended to researchData when it is produced, once and behind
\* what the earlier chunks left there, and is recorded among the fragments
\* the run has consumed; no chunk goes to another iterator of the response.
C31_ResearchRunComplete ==
    [][ \A i \in DOMAIN calls : \A chunk \in ResearchChunks :
            ( /\ calls[i].kind = "research"
              /\ Truthy(chunk.text)
              /\ StreamChunk(i, chunk) ) =>
                /\ store'.researchData = store.researchData \o chunk.text
                /\ calls'[i].fragments = Append(calls[i].fragments, chunk.text) ]_vars

\* the response of a main research run has produced its first chunk, the one
\* with the text "r" and the citation u2: the citation was collected, the
\* text is neither in researchData nor among the consumed fragments
C31_Witness ==
    /\ Len(calls) = 1
    /\ calls[1].kind = "research"
    /\ calls[1].responses = 1
    /\ "u2" \in Uris(calls[1].collected)
    /\ calls[1].fragments = <<>>
    /\ store.researchData = <<>>

-----------------------------------------------------------------------------
(* Supplemental research, step by step, under Spec *)

\* C32: handleSupplementalResearch does nothing on a blank query; with
\* progress after step 2 it only asks for confirmation, and declining changes
\* nothing; the run itself (direct or accepted) applies resetStepsFrom(3) and
\* appends the heading of the trimmed query behind the researchData it finds,
\* leaving citations and query; each fragment is appended behind the
\* researchData of that moment; on completion the citations become the merge
\* of the store's citations with the collected ones and the query is
\* emptied; on failure query, citations and researchData stay.
C32_SupplementalResearch ==
    [][ /\ lastOp'.name \in {"runSupplemental", "requestSupplemental"} =>
              ~Blank(store.supplementalResearchQuery)
        /\ lastOp'.name = "runSupplemental" => ~hasSubsequentProgress(store)
        /\ lastOp'.name = "requestSupplemental" =>
              /\ hasSubsequentProgress(store)
              /\ store' = store
              /\ calls' = calls
        /\ (lastOp'.name = "cancel" /\ lastOp'.kind = "supplemental") =>
              /\ store' = store
              /\ calls' = calls
        /\ lastOp'.name \in {"runSupplemental", "acceptSupplemental"} =>
              /\ Len(calls') = Len(calls) + 1
              /\ LET c == calls'[Len(calls')]
                 IN  /\ c.kind = "supplemental"
                     /\ c.query = IF lastOp'.name = "runSupplemental"
                                  THEN Trim(store.supplementalResearchQuery)
                                  ELSE confirmation.query
                     /\ ~Blank(c.query)
                     /\ store'.researchData =
                            store.researchData \o Heading(c.query)
              /\ store'.characters = <<>>
              /\ store'.meetingTranscript = <<>>
              /\ store'.finalArticle = <<>>
              /\ \A n \in 3..5 : ~IsLoading(store', n)
              /\ store'.citations = store.citations
              /\ store'.supplementalResearchQuery = store.supplementalResearchQuery
              /\ store'.topic = store.topic
              /\ store'.isTopicConfirmed = store.isTopicConfirmed
        /\ (lastOp'.name = "chunk" /\ lastOp'.kind = "supplemental"
                                   /\ lastOp'.ui) =>
              \E i \in DOMAIN calls :
                  /\ calls[i].kind = "supplemental"
                  /\ Len(calls'[i].fragments) = Len(calls[i].fragments) + 1
                  /\ store'.researchData =
                        store.researchData
                            \o calls'[i].fragments[Len(calls'[i].fragments)]
                  /\ store'.citations = store.citations
        /\ (lastOp'.name = "completed" /\ lastOp'.kind = "supplemental") =>
              /\ store'.citations =
                    MergeCitations(store.citations, lastOp'.collected)
              /\ store'.supplementalResearchQuery = <<>>
              /\ store'.researchData = store.researchData
        /\ (lastOp'.name = "failed" /\ lastOp'.kind = "supplemental") =>
              /\ store'.supplementalResearchQuery = store.supplementalResearchQuery
              /\ store'.citations = store.citations
              /\ store'.researchData = store.researchData ]_vars

\* a confirmed supplemental research over the finished workflow has
\* completed after the fragment "r": the old research, the heading and the
\* fragment, the citation u2 merged behind u1, steps 3..5 and the query empty
C32_Witness ==
    /\ lastOp.name = "completed"
    /\ lastOp.kind = "supplemental"
    /\ store.researchData = WorkedStore.researchData \o Heading(<<"q">>) \o <<"r">>
    /\ store.citations = <<Cite("a", "u1"), Cite("a", "u2")>>
    /\ store.supplementalResearchQuery = <<>>
    /\ store.characters = <<>>
    /\ store.meetingTranscript = <<>>
    /\ store.finalArticle = <<>>

-----------------------------------------------------------------------------
(* resetAll behind window.confirm, under Spec *)

\* C33: an accepted handleResetAll leaves step 1, the five step entities,
\* the confirmation flag, the supplemental query and the citations at their
\* defaults, the default prompts, no loading key, no preparing step and no
\* error, whatever was there and whatever is in flight; a declined one
\* changes nothing.
C33_ResetAll ==
    [][ /\ lastOp'.name = "resetAll" =>
              /\ store'.step = 1
              /\ store'.topic = <<>>
              /\ store'.researchData = <<>>
              /\ store'.characters = <<>>
              /\ store'.meetingTranscript = <<>>
              /\ store'.finalArticle = <<>>
              /\ store'.isTopicConfirmed = FALSE
              /\ store'.supplementalResearchQuery = <<>>
              /\ store'.citations = <<>>
              /\ store'.prompts = DEFAULT_PROMPTS
              /\ DOMAIN store'.loading = {}
              /\ store'.preparingStep = NoStep
              /\ store'.error = NoError
              /\ store' = InitialStore
        /\ lastOp'.name = "resetAllDeclined" =>
              /\ store' = store
              /\ calls' = calls
              /\ confirmation' = confirmation
              /\ isModalOpen' = isModalOpen ]_vars

\* everything was reset while a call dispatched under an edited prompt set
\* over the finished workflow was still awaiting its response
C33_Witness ==
    /\ lastOp.name = "resetAll"
    /\ store = InitialStore
    /\ Len(calls) = 1
    /\ calls[1].pc = "request"
    /\ calls[1].before.prompts # DEFAULT_PROMPTS
    /\ calls[1].before.topic = WorkedStore.topic

-----------------------------------------------------------------------------
(* The confirmation dialog, under Spec *)

\* the steps in which the confirm button of the dialog ran an effect
AcceptNames ==
    {"acceptRerun", "acceptResetTopic", "acceptSupplemental",
     "acceptDelete", "acceptExtend"}

\* C34: when the user accepts the pending confirmation its effect runs and
\* the confirmation is cleared in the same step, so that no second click on
\* the confirm button can run the effect again.
C34_ConfirmationResolvedOnce ==
    [][ lastOp'.name \in AcceptNames =>
            /\ confirmation # NoConfirmation
            /\ confirmation' = NoConfirmation ]_vars

\* the confirm button of one supplemental research dialog was clicked twice:
\* two supplemental research calls are awaiting their responses and the
\* dialog is still shown
C34_Witness ==
    /\ lastOp.name = "acceptSupplemental"
    /\ confirmation.kind = "supplemental"
    /\ Len(calls) = 2
    /\ calls[1].kind = "supplemental" /\ calls[1].pc = "request"
    /\ calls[2].kind = "supplemental" /\ calls[2].pc = "request"
    /\ calls[1].before.researchData = WorkedStore.researchData
    /\ calls[2].before.researchData =
          WorkedStore.researchData \o Heading(<<"q">>)
    /\ store.researchData =
          WorkedStore.researchData \o Heading(<<"q">>) \o Heading(<<"q">>)

-----------------------------------------------------------------------------
(* Streams that outlive a reset, under Spec *)

\* the streamed buffers that the step `op` has just emptied without
\* dispatching a new call for them
ClearedBuffers(op) ==
    CASE op.name \in {"resetAll", "acceptResetTopic"} -> {2, 4, 5}
      [] op.name \in {"acceptDelete", "acceptSupplemental"} -> {4, 5}
      [] op.name = "acceptExtend" -> {5}
      [] op.name = "acceptRerun" -> {S \in {2, 4, 5} : S > op.step}
      [] OTHER -> {}

\* C35: a buffer that a cascade invalidation or resetAll has just emptied is
\* still empty after the next fragment of a stream for that step: the stream
\* was dispatched before the reset (a call dispatched by the reset step is
\* still awaiting its response), so its fragment must not be written.
C35_ClearedStaysCleared ==
    [][ \A S \in ClearedBuffers(lastOp) :
            /\ Buffer(store, S) = <<>>
            /\ (lastOp'.name = "chunk" /\ lastOp'.step = S) =>
                  Buffer(store', S) = <<>> ]_vars

\* everything was reset while the article was streaming, and the next
\* fragment of that stream is the article of the otherwise initial store
C35_Witness ==
    /\ lastOp.name = "chunk"
    /\ lastOp.kind = "article"
    /\ Len(calls) = 1
    /\ calls[1].before.topic = WorkedStore.topic
    /\ store = [InitialStore EXCEPT !.finalArticle = <<"f">>]

-----------------------------------------------------------------------------
(* Logical completion along the workflow, under Spec *)

\* C36: in every reachable state, if step K (2..5) is logically completed
\* then every step before K is logically completed.
C36_CompletionDownwardClosed ==
    \A K \in 2..5 :
        isStepLogicallyCompleted(store, K) =>
            \A J \in 1..(K - 1) : isStepLogicallyCompleted(store, J)

\* a character was added by hand after the rerun of the research had
\* failed: nothing in flight, step 3 logically completed, step 2 not
C36_Witness ==
    /\ lastOp.name = "saveCharacter"
    /\ calls = <<>>
    /\ dispatched = 1
    /\ store.researchData = <<>>
    /\ store.citations = <<>>
    /\ isStepLogicallyCompleted(store, 1)
    /\ ~isStepLogicallyCompleted(store, 2)
    /\ isStepLogicallyCompleted(store, 3)


\* C37: in every reachable state every step below the current step (the
\* steps getStepStatus shows as completed) is logically completed; in
\* particular the topic is confirmed whenever the current step is above 1.
C37_StepsBelowCurrentCompleted ==
    /\ \A K \in Steps :
          getStepStatus(store, K) = "completed" =>
              isStepLogicallyCompleted(store, K)
    /\ store.step > 1 => store.isTopicConfirmed

\* the topic reset was accepted on the last step of the finished workflow:
\* the current step is still 5 and no step is logically completed
C37_Witness ==
    /\ lastOp.name = "acceptResetTopic"
    /\ calls = <<>>
    /\ store.step = 5
    /\ ~store.isTopicConfirmed
    /\ store.topic = <<>>
    /\ \A K \in 1..4 : /\ getStepStatus(store, K) = "completed"
                       /\ ~isStepLogicallyCompleted(store, K)


\* C38: in every reachable state a confirmed topic is not blank.
C38_ConfirmedTopicNotBlank ==
    store.isTopicConfirmed => ~Blank(store.topic)

\* the topic textarea was edited to a blank after the confirmation: the
\* flag stands, the research is there, and the topic trims to nothing
C38_Witness ==
    /\ lastOp.name = "setTopic"
    /\ store.isTopicConfirmed
    /\ store.topic = <<" ">>
    /\ Blank(store.topic)
    /\ store.researchData = WorkedStore.researchData
    /\ store.step = 5

-----------------------------------------------------------------------------
(* The loading flags and the preparing marker against the calls in flight, *)
(* under Spec                                                              *)

\* C39: in every reachable state loading[S] is true for the step S of every
\* call that was dispatched and has not yet terminated.
C39_LoadingTracksCalls ==
    \A i \in DOMAIN calls : IsLoading(store, calls[i].step)

\* a character was deleted while the article was streaming: the call is
\* still in flight and resetStepsFrom(4) has removed loading[5]
C39_Witness ==
    /\ lastOp.name = "acceptDelete"
    /\ Len(calls) = 1
    /\ calls[1].kind = "article"
    /\ calls[1].pc = "stream"
    /\ 5 \notin DOMAIN store.loading
    /\ ~IsLoading(store, 5)


\* call c is awaiting its first response: the request is pending, or the
\* stream has delivered no fragment to the handler yet
AwaitingFirstResponse(c) == c.pc = "request" \/ c.firstChunk

\* C40: in every reachable state a non-null preparingStep S has loading[S]
\* true and a call for step S awaiting its first response; and the end of a
\* call for one step leaves the marker of a call for another step that is
\* still awaiting its first response.
C40_PreparingMarker ==
    /\ [](store.preparingStep # NoStep =>
            /\ IsLoading(store, store.preparingStep)
            /\ \E i \in DOMAIN calls :
                  /\ calls[i].step = store.preparingStep
                  /\ AwaitingFirstResponse(calls[i]))
    /\ [][ ( /\ lastOp'.name \in {"completed", "failed"}
             /\ store.preparingStep # NoStep
             /\ store.preparingStep # lastOp'.step
             /\ \E i \in DOMAIN calls' :
                   /\ calls'[i].step = store.preparingStep
                   /\ AwaitingFirstResponse(calls'[i]) )
           => store'.preparingStep = store.preparingStep ]_vars

\* one call has ended while a call for another step was awaiting its
\* response: that call is still pending, its loading flag is set, and the
\* preparing marker is gone
C40_Witness ==
    /\ lastOp.name \in {"completed", "failed"}
    /\ Len(calls) = 1
    /\ calls[1].pc = "request"
    /\ calls[1].step # lastOp.step
    /\ IsLoading(store, calls[1].step)
    /\ ~IsLoading(store, lastOp.step)
    /\ store.preparingStep = NoStep

====
